---- MODULE Spec2Model ----
(***************************************************************************)
(* Frame composition of the liveline chart: drawFrame, drawMultiFrame and  *)
(* drawCandleFrame (src/unnamed/part_000) and the surface calls they make.  *)
(*                                                                         *)
(* Numbers.  Progress scalars, alphas and pixel positions are exact        *)
(* rationals [n, d] in lowest terms.  The shake amplitude a is kept as the *)
(* exact real  a = m * SHAKE_DECAY_RATE^(e / 1000)  in the record          *)
(* [m, e, side]: m is the amplitude last stored, a rational number of      *)
(* pixels, and e the time it has decayed since, in ms.                     *)
(*                                                                         *)
(* The program computes in IEEE-754 doubles.  Where the two sides of a     *)
(* comparison are equal as real numbers and one of them is the result of   *)
(* rounded arithmetic, the double falls on either side of the other.  What *)
(* it does is a function of the call's inputs, so it is carried in the     *)
(* options bundle: o.ties is the set of such comparisons that read TRUE in *)
(* this call, o.rnd the side of SHAKE_MIN_AMPLITUDE the amplitude stored   *)
(* by this call lies on (-1, 0, 1), kept in the record as side.  A tie     *)
(* that a single input value produces is decided as the doubles decide it. *)
(***************************************************************************)
EXTENDS Integers, Sequences, FiniteSets, TLC

VARIABLES
  pc,          \* "idle": between ticks; "call": opts built; "ret": composer returned
  opts,        \* the per-tick options bundle of the call (opts.fn names the composer)
  shake,       \* ShakeState.amplitude, owned by the caller, kept across ticks
  ampIn,       \* shake.amplitude as it was at entry of the call that returned
  ctx,         \* the drawing surface at return: state stack, globalAlpha, call log
  runStart,    \* amplitude at the start of the current burst-free run of ticks
  runElapsed,  \* sum of dt over that run, in ms
  runTicks,    \* number of drawFrame ticks of that run
  replay,      \* outcome of a second call made with the same inputs and entry state
  result       \* value returned by a pure helper applied on its own

vars == <<pc, opts, shake, ampIn, ctx, runStart, runElapsed, runTicks, replay, result>>

---------------------------------------------------------------------------
(* Exact rationals *)

Abs(x) == IF x < 0 THEN -x ELSE x

RECURSIVE Gcd(_, _)
Gcd(a, b) == IF b = 0 THEN a ELSE Gcd(b, a % b)

R(n, d) ==
  LET g == Gcd(Abs(n), Abs(d))
      s == IF d < 0 THEN -1 ELSE 1
  IN [n |-> (s * n) \div g, d |-> (s * d) \div g]

Q(x) == [n |-> x, d |-> 1]
Zero == Q(0)
One == Q(1)
\* null / undefined where a number is expected
Null == [n |-> 0, d |-> 0]

RAdd(a, b) ==
  LET g == Gcd(a.d, b.d)
  IN R(a.n * (b.d \div g) + b.n * (a.d \div g), (a.d \div g) * b.d)
RSub(a, b) ==
  LET g == Gcd(a.d, b.d)
  IN R(a.n * (b.d \div g) - b.n * (a.d \div g), (a.d \div g) * b.d)
RMul(a, b) ==
  LET x == R(a.n, b.d)
      y == R(b.n, a.d)
  IN [n |-> x.n * y.n, d |-> x.d * y.d]
RDiv(a, b) == RMul(a, R(b.d, b.n))
RLt(a, b) ==
  LET g == Gcd(a.d, b.d)
  IN a.n * (b.d \div g) < b.n * (a.d \div g)
RLe(a, b) ==
  LET g == Gcd(a.d, b.d)
  IN a.n * (b.d \div g) <= b.n * (a.d \div g)
RGt(a, b) == RLt(b, a)
RGe(a, b) == RLe(b, a)
RMin(a, b) == IF RLt(b, a) THEN b ELSE a
RMax(a, b) == IF RGt(b, a) THEN b ELSE a

\* x > t and x < t for a computed x: at x = t the comparison g reads as o.ties says
TieGt(x, t, o, g) == RGt(x, t) \/ (x = t /\ g \in o.ties)
TieLt(x, t, o, g) == RLt(x, t) \/ (x = t /\ g \in o.ties)

---------------------------------------------------------------------------
(* Constants of the source *)

\* SHAKE_DECAY_RATE = 0.002 = 1 / DecayBase
DecayBase == 500
\* SHAKE_MIN_AMPLITUDE = 0.2
SHAKE_MIN_AMPLITUDE == R(1, 5)
FADE_EDGE_WIDTH == 40
CROSSHAIR_FADE_MIN_PX == 5

\* dt is in ms: Math.pow(SHAKE_DECAY_RATE, opts.dt / 1000)
MsPerSec == 1000

\* Bounds of the burst-free run the observer follows: its length in ms and in
\* ticks; a longer run is followed as a new run
MaxElapsed == 1000
MaxTicks == 2

\* Longest series list handed to drawMultiFrame
MaxSeries == 2
\* the longest bar list handed to drawBars
MaxBars == 3

---------------------------------------------------------------------------
(* Shake amplitude: the real number m * 0.002^(e/1000) *)

Amp(m, e) == [m |-> m, e |-> IF m = Zero THEN 0 ELSE e, side |-> 0]
AmpZero == Amp(Zero, 0)

\* createShakeState(): { amplitude: 0 }
createShakeState == AmpZero

(* ThresholdAt[r] = floor(0.2 * ThresholdDen * 500^(r/1000)) for 0 < r < 1000. *)
(* 500^(r/1000) is irrational there, so  x * 0.002^(r/1000) < 0.2  when        *)
(* x <= ThresholdAt[r] / ThresholdDen  and  > 0.2  when                        *)
(* x >= (ThresholdAt[r] + 1) / ThresholdDen.  (T^1000 < 2000^1000 * 500^r <    *)
(* (T+1)^1000 for each entry T.)                                               *)
ThresholdDen == 10000
ThresholdAt ==
  <<2012, 2025, 2037, 2050, 2063, 2075, 2088, 2101, 2115, 2128, 2141, 2154,
     2168, 2181, 2195, 2209, 2222, 2236, 2250, 2264, 2278, 2293, 2307, 2321,
     2336, 2350, 2365, 2380, 2394, 2409, 2424, 2440, 2455, 2470, 2485, 2501,
     2517, 2532, 2548, 2564, 2580, 2596, 2612, 2628, 2645, 2661, 2678, 2695,
     2711, 2728, 2745, 2762, 2780, 2797, 2814, 2832, 2850, 2867, 2885, 2903,
     2921, 2940, 2958, 2976, 2995, 3014, 3032, 3051, 3070, 3089, 3109, 3128,
     3148, 3167, 3187, 3207, 3227, 3247, 3267, 3288, 3308, 3329, 3349, 3370,
     3391, 3413, 3434, 3455, 3477, 3498, 3520, 3542, 3564, 3587, 3609, 3631,
     3654, 3677, 3700, 3723, 3746, 3769, 3793, 3817, 3840, 3864, 3888, 3913,
     3937, 3962, 3986, 4011, 4036, 4061, 4087, 4112, 4138, 4163, 4189, 4216,
     4242, 4268, 4295, 4322, 4349, 4376, 4403, 4430, 4458, 4486, 4514, 4542,
     4570, 4599, 4627, 4656, 4685, 4715, 4744, 4774, 4803, 4833, 4863, 4894,
     4924, 4955, 4986, 5017, 5048, 5080, 5111, 5143, 5175, 5208, 5240, 5273,
     5306, 5339, 5372, 5405, 5439, 5473, 5507, 5541, 5576, 5611, 5646, 5681,
     5716, 5752, 5788, 5824, 5860, 5897, 5934, 5971, 6008, 6045, 6083, 6121,
     6159, 6197, 6236, 6275, 6314, 6353, 6393, 6433, 6473, 6513, 6554, 6595,
     6636, 6677, 6719, 6761, 6803, 6845, 6888, 6931, 6974, 7018, 7061, 7105,
     7150, 7194, 7239, 7284, 7330, 7375, 7421, 7468, 7514, 7561, 7608, 7656,
     7703, 7751, 7800, 7848, 7897, 7946, 7996, 8046, 8096, 8146, 8197, 8248,
     8300, 8352, 8404, 8456, 8509, 8562, 8615, 8669, 8723, 8777, 8832, 8887,
     8942, 8998, 9054, 9111, 9168, 9225, 9282, 9340, 9398, 9457, 9516, 9575,
     9635, 9695, 9755, 9816, 9877, 9939, 10001, 10063, 10126, 10189, 10253, 10317,
     10381, 10446, 10511, 10576, 10642, 10709, 10775, 10843, 10910, 10978, 11047, 11115,
     11185, 11254, 11325, 11395, 11466, 11538, 11610, 11682, 11755, 11828, 11902, 11976,
     12051, 12126, 12201, 12278, 12354, 12431, 12509, 12587, 12665, 12744, 12823, 12903,
     12984, 13065, 13146, 13228, 13311, 13394, 13477, 13561, 13646, 13731, 13816, 13903,
     13989, 14076, 14164, 14252, 14341, 14431, 14521, 14611, 14702, 14794, 14886, 14979,
     15072, 15166, 15261, 15356, 15452, 15548, 15645, 15743, 15841, 15939, 16039, 16139,
     16239, 16341, 16442, 16545, 16648, 16752, 16856, 16961, 17067, 17174, 17281, 17388,
     17497, 17606, 17716, 17826, 17937, 18049, 18162, 18275, 18389, 18503, 18619, 18735,
     18852, 18969, 19087, 19206, 19326, 19447, 19568, 19690, 19812, 19936, 20060, 20185,
     20311, 20438, 20565, 20693, 20822, 20952, 21083, 21214, 21347, 21480, 21614, 21748,
     21884, 22020, 22158, 22296, 22435, 22575, 22715, 22857, 22999, 23143, 23287, 23432,
     23578, 23725, 23873, 24022, 24172, 24322, 24474, 24627, 24780, 24935, 25090, 25246,
     25404, 25562, 25722, 25882, 26043, 26206, 26369, 26533, 26699, 26865, 27033, 27201,
     27371, 27541, 27713, 27886, 28060, 28235, 28411, 28588, 28766, 28945, 29126, 29307,
     29490, 29674, 29859, 30045, 30232, 30421, 30611, 30801, 30993, 31187, 31381, 31577,
     31773, 31972, 32171, 32371, 32573, 32776, 32981, 33186, 33393, 33601, 33811, 34022,
     34234, 34447, 34662, 34878, 35095, 35314, 35534, 35756, 35979, 36203, 36429, 36656,
     36884, 37114, 37346, 37578, 37813, 38048, 38286, 38524, 38764, 39006, 39249, 39494,
     39740, 39988, 40237, 40488, 40740, 40994, 41250, 41507, 41766, 42026, 42288, 42552,
     42817, 43084, 43353, 43623, 43895, 44168, 44444, 44721, 45000, 45280, 45562, 45846,
     46132, 46420, 46709, 47000, 47293, 47588, 47885, 48183, 48484, 48786, 49090, 49396,
     49704, 50014, 50326, 50640, 50955, 51273, 51593, 51914, 52238, 52563, 52891, 53221,
     53553, 53887, 54222, 54560, 54901, 55243, 55587, 55934, 56282, 56633, 56986, 57342,
     57699, 58059, 58421, 58785, 59151, 59520, 59891, 60265, 60640, 61018, 61399, 61781,
     62167, 62554, 62944, 63336, 63731, 64129, 64528, 64931, 65335, 65743, 66153, 66565,
     66980, 67398, 67818, 68240, 68666, 69094, 69525, 69958, 70394, 70833, 71275, 71719,
     72166, 72616, 73069, 73524, 73982, 74444, 74908, 75375, 75845, 76317, 76793, 77272,
     77754, 78238, 78726, 79217, 79711, 80208, 80708, 81211, 81717, 82226, 82739, 83255,
     83774, 84296, 84822, 85350, 85882, 86418, 86957, 87499, 88044, 88593, 89145, 89701,
     90260, 90823, 91389, 91959, 92532, 93109, 93689, 94273, 94861, 95452, 96047, 96646,
     97249, 97855, 98465, 99079, 99697, 100318, 100943, 101573, 102206, 102843, 103484, 104129,
     104778, 105432, 106089, 106750, 107416, 108085, 108759, 109437, 110119, 110806, 111497, 112192,
     112891, 113595, 114303, 115016, 115733, 116454, 117180, 117910, 118646, 119385, 120129, 120878,
     121632, 122390, 123153, 123921, 124693, 125471, 126253, 127040, 127832, 128629, 129431, 130238,
     131049, 131866, 132688, 133516, 134348, 135185, 136028, 136876, 137730, 138588, 139452, 140321,
     141196, 142076, 142962, 143853, 144750, 145652, 146560, 147474, 148393, 149319, 150249, 151186,
     152129, 153077, 154031, 154991, 155958, 156930, 157908, 158893, 159883, 160880, 161883, 162892,
     163907, 164929, 165957, 166992, 168033, 169080, 170134, 171195, 172262, 173336, 174417, 175504,
     176598, 177699, 178807, 179922, 181043, 182172, 183307, 184450, 185600, 186757, 187921, 189093,
     190272, 191458, 192651, 193852, 195061, 196277, 197500, 198731, 199970, 201217, 202471, 203734,
     205004, 206282, 207568, 208862, 210164, 211474, 212792, 214119, 215453, 216797, 218148, 219508,
     220876, 222253, 223639, 225033, 226436, 227847, 229268, 230697, 232135, 233582, 235039, 236504,
     237978, 239462, 240954, 242457, 243968, 245489, 247019, 248559, 250109, 251668, 253237, 254815,
     256404, 258002, 259611, 261229, 262858, 264496, 266145, 267804, 269474, 271154, 272844, 274545,
     276256, 277979, 279712, 281455, 283210, 284975, 286752, 288539, 290338, 292148, 293969, 295802,
     297646, 299502, 301369, 303247, 305138, 307040, 308954, 310880, 312818, 314768, 316730, 318705,
     320692, 322691, 324703, 326727, 328764, 330813, 332875, 334951, 337039, 339140, 341254, 343381,
     345522, 347676, 349843, 352024, 354219, 356427, 358649, 360885, 363134, 365398, 367676, 369968,
     372274, 374595, 376930, 379280, 381645, 384024, 386418, 388827, 391251, 393690, 396144, 398613,
     401098, 403599, 406115, 408647, 411194, 413757, 416337, 418932, 421544, 424172, 426816, 429477,
     432154, 434848, 437559, 440287, 443031, 445793, 448572, 451369, 454182, 457014, 459863, 462730,
     465614, 468517, 471438, 474376, 477334, 480309, 483304, 486317, 489348, 492399, 495468, 498557,
     501665, 504792, 507939, 511106, 514292, 517498, 520724, 523970, 527237, 530524, 533831, 537159,
     540507, 543877, 547267, 550679, 554112, 557566, 561042, 564540, 568059, 571600, 575163, 578749,
     582357, 585987, 589640, 593316, 597015, 600737, 604482, 608250, 612042, 615857, 619696, 623560,
     627447, 631358, 635294, 639255, 643240, 647250, 651284, 655345, 659430, 663541, 667677, 671840,
     676028, 680242, 684483, 688750, 693043, 697364, 701711, 706086, 710487, 714916, 719373, 723858,
     728370, 732911, 737480, 742077, 746703, 751358, 756042, 760755, 765498, 770270, 775072, 779904,
     784765, 789658, 794580, 799534, 804518, 809533, 814580, 819658, 824768, 829909, 835083, 840289,
     845527, 850798, 856102, 861439, 866809, 872213, 877650, 883121, 888627, 894166, 899740, 905349,
     910993, 916672, 922387, 928137, 933923, 939745, 945603, 951498, 957430, 963398, 969404, 975447,
     981528, 987647, 993804>>

(* Sign of the real number m * 0.002^(q + r/1000) - SHAKE_MIN_AMPLITUDE, q a   *)
(* whole number of seconds of either sign and 0 <= r < 1000 ms, taken one      *)
(* second at a time: an amplitude under 0.2 stays under it as it decays        *)
(* further, one at or over 0.2 was over it before.  0 where the number is the  *)
(* real 0.2, or lies less than 1/ThresholdDen px * 0.002^(r/1000) from it.     *)
RECURSIVE AmpCmpAt(_, _, _)
AmpCmpAt(m, q, r) ==
  IF RLe(m, Zero) THEN -1
  ELSE IF q > 0
    THEN IF m.n < m.d /\ RLt(m, SHAKE_MIN_AMPLITUDE) THEN -1
         ELSE AmpCmpAt(RDiv(m, Q(DecayBase)), q - 1, r)
  ELSE IF q < 0
    THEN IF m.n >= m.d \/ RGe(m, SHAKE_MIN_AMPLITUDE) THEN 1
         ELSE AmpCmpAt(RMul(m, Q(DecayBase)), q + 1, r)
  ELSE IF r = 0
    THEN IF m.n >= m.d THEN 1
         ELSE IF RLt(m, SHAKE_MIN_AMPLITUDE) THEN -1
         ELSE IF m = SHAKE_MIN_AMPLITUDE THEN 0
         ELSE 1
  ELSE IF m.n < m.d /\ RLe(m, SHAKE_MIN_AMPLITUDE) THEN -1
  ELSE IF m.n \div m.d >= 100 THEN 1
  ELSE IF RLe(m, R(ThresholdAt[r], ThresholdDen)) THEN -1
  ELSE IF RGe(m, R(ThresholdAt[r] + 1, ThresholdDen)) THEN 1
  ELSE 0

\* Sign of the real number a - SHAKE_MIN_AMPLITUDE, 0 as AmpCmpAt has it
AmpRealCmpMin(a) == AmpCmpAt(a.m, a.e \div MsPerSec, a.e % MsPerSec)

(* The sides of SHAKE_MIN_AMPLITUDE the double of a computed a can lie on: the *)
(* rounded product can be below 0.2, above it, or the double 0.2 itself.       *)
AmpRoundings(a) == IF AmpRealCmpMin(a) # 0 THEN {0} ELSE {-1, 0, 1}

\* the amplitude m * 0.002^(e/1000) as the double on the given side stores it
AmpSided(m, e, side) ==
  IF AmpRealCmpMin(Amp(m, e)) # 0 THEN Amp(m, e)
  ELSE [Amp(m, e) EXCEPT !.side = IF side \in AmpRoundings(Amp(m, e)) THEN side ELSE 1]

(* Sign of shake.amplitude - SHAKE_MIN_AMPLITUDE as the program's comparison   *)
(* finds it.                                                                   *)
AmpCmpMin(a) == IF AmpRealCmpMin(a) = 0 THEN a.side ELSE AmpRealCmpMin(a)

\* shake.amplitude > SHAKE_MIN_AMPLITUDE
AmpAboveMin(a) == AmpCmpMin(a) = 1
\* shake.amplitude < SHAKE_MIN_AMPLITUDE
AmpBelowMin(a) == AmpCmpMin(a) = -1

\* an amplitude that is never scaled down
AmpTimesOne(a, dt, rnd) == a

(* a *= Math.pow(SHAKE_DECAY_RATE, dt / 1000), dt a whole number of ms.        *)
(* Math.pow(0.002, 0) is 1 and the product the stored double; Math.pow(0.002,  *)
(* 1) is the double 0.002, and its product with the stored 100 the double 0.2. *)
AmpTimesDecayRate(a, dt, rnd) ==
  IF dt = 0 THEN a
  ELSE AmpSided(a.m, a.e + dt, IF a.e = 0 /\ dt = MsPerSec THEN 0 ELSE rnd)

\* amplitude as a record from a rational number of pixels
AmpOf(r) == Amp(r, 0)

\* a1 <= a2 as real numbers, for a1, a2 sharing the stored value m or one of them 0
AmpLe(a1, a2) ==
  \/ a1.m = Zero
  \/ a1.m = a2.m /\ a1.e >= a2.e
  \/ a1.e = a2.e /\ RLe(a1.m, a2.m)

---------------------------------------------------------------------------
(* The drawing surface (CanvasRenderingContext2D): the state that save() and  *)
(* restore() stack, and the log of the calls made on it and through it.       *)

NoShift == [x |-> Zero, y |-> Zero, e |-> 0]

BaseSurface ==
  [stack |-> <<>>, alpha |-> One, comp |-> "source-over", clip |-> "none",
   xf |-> NoShift, log |-> <<>>]

Entry(s, op, args) ==
  [op |-> op, alpha |-> s.alpha, comp |-> s.comp, clip |-> s.clip,
   depth |-> Len(s.stack), args |-> args]

\* a call of a drawing module, or a drawing call on ctx, under the current state
Emit(s, op, args) == [s EXCEPT !.log = Append(@, Entry(s, op, args))]

\* ctx.save()
Save(s) ==
  [Emit(s, "save", <<>>) EXCEPT
     !.stack = Append(@, [alpha |-> s.alpha, comp |-> s.comp, clip |-> s.clip, xf |-> s.xf])]

\* ctx.restore(): pops the saved state; does nothing on an empty stack
Restore(s) ==
  LET t == Emit(s, "restore", <<>>)
      n == Len(s.stack)
  IN IF n = 0 THEN t
     ELSE [t EXCEPT !.stack = SubSeq(s.stack, 1, n - 1),
                    !.alpha = s.stack[n].alpha, !.comp = s.stack[n].comp,
                    !.clip = s.stack[n].clip, !.xf = s.stack[n].xf]

\* ctx.globalAlpha = a: the canvas ignores a value outside [0, 1]
SetAlpha(s, a) == IF RLe(Zero, a) /\ RLe(a, One) THEN [s EXCEPT !.alpha = a] ELSE s

\* ctx.globalCompositeOperation = c
SetComp(s, c) == [s EXCEPT !.comp = c]

\* ctx.beginPath(); ctx.rect(...); ctx.clip()
Clip(s, region) == [Emit(s, "clip", <<>>) EXCEPT !.clip = region]

\* ctx.translate(x, y), x and y in units of 0.002^(e/1000) px
Translate(s, x, y, e) ==
  [Emit(s, "translate", <<x, y, Q(e)>>) EXCEPT
     !.xf = IF RAdd(s.xf.x, x) = Zero /\ RAdd(s.xf.y, y) = Zero THEN NoShift
            ELSE [x |-> RAdd(s.xf.x, x), y |-> RAdd(s.xf.y, y), e |-> e]]

\* the surface a composer is handed: ctx.globalAlpha as the caller left it
EntrySurface(o) == [BaseSurface EXCEPT !.alpha = o.entryAlpha]

(* ctx.globalAlpha = a for a rounded product a: where a is 1 as a real number  *)
(* the double is stored, or exceeds 1 and is ignored, as o.ties says of g.     *)
SetAlphaRounded(s, a, o, g) == IF a = One /\ g \in o.ties THEN s ELSE SetAlpha(s, a)

\* a boolean argument
B(b) == IF b THEN One ELSE Zero

---------------------------------------------------------------------------
(* Progress / ramp math *)

Clamp01(t) == RMax(Zero, RMin(One, t))

\* revealRamp(start, end): smoothstep of reveal over [start, end]
revealRamp(reveal, start, end) ==
  LET t == Clamp01(RDiv(RSub(reveal, start), RSub(end, start)))
  IN RMul(RMul(t, t), RSub(Q(3), RMul(Q(2), t)))

(* Crosshair proximity fade: the scrubOpacity / dotScrub expression of        *)
(* drawFrame and drawMultiFrame.                                              *)
fadeStartOf(chartW) == RMin(Q(80), RMul(chartW, R(3, 10)))

\* a ramp measured from 0 instead of from CROSSHAIR_FADE_MIN_PX
ProximityFadeFromZero(distToLive, chartW, scrubAmount) ==
  LET fadeStart == fadeStartOf(chartW)
  IN IF RLt(distToLive, Q(CROSSHAIR_FADE_MIN_PX)) THEN Zero
     ELSE IF RGe(distToLive, fadeStart) THEN scrubAmount
     ELSE RMul(RDiv(distToLive, fadeStart), scrubAmount)

ProximityFade(distToLive, chartW, scrubAmount) ==
  LET fadeStart == fadeStartOf(chartW)
  IN IF RLt(distToLive, Q(CROSSHAIR_FADE_MIN_PX)) THEN Zero
     ELSE IF RGe(distToLive, fadeStart) THEN scrubAmount
     ELSE RMul(RDiv(RSub(distToLive, Q(CROSSHAIR_FADE_MIN_PX)),
                    RSub(fadeStart, Q(CROSSHAIR_FADE_MIN_PX))),
               scrubAmount)

---------------------------------------------------------------------------
(* drawFrame.  o is the DrawOptions bundle; absent optional fields are FALSE  *)
(* (referenceLine, orderbookData, orderbookState, particleState, shakeState,  *)
(* bars) or Null (hoverX, hoverValue, hoverTime).  o.bars stands for bars,    *)
(* barLayout, barWidthSecs and barFillColor being all present.  The values    *)
(* the external modules return are part of o: o.pts is the x of the last      *)
(* point drawLine returned (Null: undefined or an empty list), o.burst the    *)
(* intensity spawnOnSwing returned.  a is shake.amplitude at entry; rx, ry    *)
(* are the two Math.random() draws.                                           *)

\* shakeX = (Math.random() - 0.5) * 2 * shake.amplitude, in units of 0.002^(a.e/1000) px
ShakeOffset(r, a) == RMul(RMul(RSub(r, R(1, 2)), Q(2)), a.m)

ShakeApplied(o, a) == o.shakeState /\ AmpAboveMin(a)

shakeXOf(o, a, rx) == IF ShakeApplied(o, a) THEN ShakeOffset(rx, a) ELSE Zero
shakeYOf(o, a, ry) == IF ShakeApplied(o, a) THEN ShakeOffset(ry, a) ELSE Zero

\* an offset applied to any non-zero amplitude, the minimum forgotten
FrameShakeApplyAnyAmplitude(s, o, a, rx, ry) ==
  IF o.shakeState /\ RGt(a.m, Zero)
  THEN Translate(Save(s), ShakeOffset(rx, a), ShakeOffset(ry, a), a.e)
  ELSE s

\* 0. Chart shake: apply offset
FrameShakeApply(s, o, a, rx, ry) ==
  IF ShakeApplied(o, a)
  THEN Translate(Save(s), shakeXOf(o, a, rx), shakeYOf(o, a, ry), a.e)
  ELSE s

\* a decay that runs only in a tick that applied an offset
ShakeDecayWhenApplied(a, dt, rnd) ==
  IF AmpAboveMin(a)
  THEN (IF AmpBelowMin(AmpTimesDecayRate(a, dt, rnd)) THEN AmpZero
        ELSE AmpTimesDecayRate(a, dt, rnd))
  ELSE a

\* 0. Chart shake: decay amplitude, snap to 0 below the minimum
ShakeDecay(a, dt, rnd) ==
  IF AmpBelowMin(AmpTimesDecayRate(a, dt, rnd)) THEN AmpZero
  ELSE AmpTimesDecayRate(a, dt, rnd)

\* 1. Reference line
FrameReferenceLine(s, o) ==
  IF o.referenceLine /\ RGt(o.chartReveal, R(1, 100))
  THEN LET s1 == Save(s)
           s2 == IF RLt(o.chartReveal, One) THEN SetAlpha(s1, o.chartReveal) ELSE s1
       IN Restore(Emit(s2, "drawReferenceLine", <<>>))
  ELSE s

\* a grid drawn whenever it is switched on, whatever its alpha
FrameGridUnguarded(s, o) ==
  IF o.showGrid
  THEN LET gridAlpha == IF RLt(o.chartReveal, One)
                        THEN revealRamp(o.chartReveal, R(15, 100), R(7, 10)) ELSE One
       IN Restore(Emit(SetAlpha(Save(s), gridAlpha), "drawGrid", <<>>))
  ELSE s

\* 2. Grid
FrameGrid(s, o) ==
  IF o.showGrid
  THEN LET gridAlpha == IF RLt(o.chartReveal, One)
                        THEN revealRamp(o.chartReveal, R(15, 100), R(7, 10)) ELSE One
       IN IF RGt(gridAlpha, R(1, 100))
          THEN LET s1 == Save(s)
                   s2 == IF RLt(gridAlpha, One) THEN SetAlpha(s1, gridAlpha) ELSE s1
               IN Restore(Emit(s2, "drawGrid", <<>>))
          ELSE s
  ELSE s

\* 2b. Orderbook
FrameOrderbook(s, o) ==
  IF o.orderbookData /\ o.orderbookState /\ RGt(o.chartReveal, R(1, 100))
  THEN LET s1 == Save(s)
           s2 == IF RLt(o.chartReveal, One) THEN SetAlpha(s1, o.chartReveal) ELSE s1
       IN Restore(Emit(s2, "drawOrderbook", <<o.swingMagnitude>>))
  ELSE s

\* scrubX: opts.scrubAmount > 0.05 ? opts.hoverX : null
scrubXOf(o) == IF RGt(o.scrubAmount, R(5, 100)) THEN o.hoverX ELSE Null

\* the BarDrawOptions handed to drawBars
BarArgs(o) ==
  <<scrubXOf(o), o.scrubAmount,
    IF RLt(o.chartReveal, One) THEN revealRamp(o.chartReveal, R(1, 10), R(8, 10)) ELSE One,
    B(o.barShowLabels)>>

\* 2c / 1b. Bars, overlay mode
BarsOverlay(s, o) ==
  IF o.bars /\ o.barMode = "overlay"
  THEN LET barAlpha == IF RLt(o.chartReveal, One)
                       THEN revealRamp(o.chartReveal, R(1, 10), R(6, 10)) ELSE One
       IN IF RGt(barAlpha, R(1, 100))
          THEN LET s1 == Save(s)
                   s2 == IF RLt(barAlpha, One) THEN SetAlpha(s1, barAlpha) ELSE s1
               IN Restore(Emit(s2, "drawBars", BarArgs(o)))
          ELSE s
  ELSE s

\* 6b / 4b. Bars, default mode, clipped to the bottom strip
BarsDefault(s, o) ==
  IF o.bars /\ o.barMode = "default"
  THEN LET barAlpha == IF RLt(o.chartReveal, One)
                       THEN revealRamp(o.chartReveal, R(15, 100), R(7, 10)) ELSE One
       IN IF RGt(barAlpha, R(1, 100))
          THEN LET s1 == Clip(Save(s), "barStrip")
                   s2 == IF RLt(barAlpha, One) THEN SetAlpha(s1, barAlpha) ELSE s1
               IN Restore(Emit(s2, "drawBars", BarArgs(o)))
          ELSE s
  ELSE s

\* 3. Line + fill: drawLine is called on every tick
FrameLine(s, o) ==
  Emit(s, "drawLine", <<scrubXOf(o), o.scrubAmount, o.chartReveal, B(o.showFill)>>)

\* 4 / 6. Time axis
FrameTimeAxis(s, o) ==
  LET timeAlpha == IF RLt(o.chartReveal, One)
                   THEN revealRamp(o.chartReveal, R(15, 100), R(7, 10)) ELSE One
  IN IF RGt(timeAlpha, R(1, 100))
     THEN LET s1 == Save(s)
              s2 == IF RLt(timeAlpha, One) THEN SetAlpha(s1, timeAlpha) ELSE s1
          IN Restore(Emit(s2, "drawTimeAxis", <<>>))
     ELSE s

\* pts && pts.length > 0
HasPts(o) == o.pts # Null

\* 5. dotScrub
dotScrubOf(o) ==
  IF o.hoverX # Null /\ RGt(o.scrubAmount, Zero)
  THEN ProximityFade(RSub(o.pts, o.hoverX), o.chartW, o.scrubAmount)
  ELSE o.scrubAmount

\* dotAlpha = reveal < 0.3 ? 0 : (reveal - 0.3) / 0.7
dotAlphaOf(o) ==
  IF RLt(o.chartReveal, R(3, 10)) THEN Zero
  ELSE RDiv(RSub(o.chartReveal, R(3, 10)), R(7, 10))

(* dotAlpha > 0.01.  The two are equal as reals at reveal = 0.307 only, where  *)
(* the double (0.307 - 0.3) / 0.7 is 0.010000000000000009.  (At reveal = 1 the *)
(* double (1 - 0.3) / 0.7 is 1.)                                               *)
DotShown(o) == RGe(dotAlphaOf(o), R(1, 100))

\* 5. Dot
FrameDot(s, o) ==
  LET showPulse == o.showPulse /\ RGt(o.chartReveal, R(6, 10)) /\ RLt(o.pauseProgress, R(1, 2))
  IN IF HasPts(o) /\ DotShown(o)
     THEN LET s1 == Save(s)
              s2 == IF RLt(dotAlphaOf(o), One) THEN SetAlpha(s1, dotAlphaOf(o)) ELSE s1
          IN Restore(Emit(s2, "drawDot", <<o.pts, B(showPulse), dotScrubOf(o)>>))
     ELSE s

\* arrowReveal = reveal < 1 ? revealRamp(0.6, 1) : 1
arrowRevealOf(o) ==
  IF RLt(o.chartReveal, One) THEN revealRamp(o.chartReveal, R(6, 10), One) ELSE One

\* arrowAlpha = arrowReveal * (1 - opts.pauseProgress)
arrowAlphaOf(o) == RMul(arrowRevealOf(o), RSub(One, o.pauseProgress))

(* arrowAlpha > 0.01.  With arrowReveal = 1 the two are equal as reals at      *)
(* pauseProgress = 0.99 only, where the double 1 * (1 - 0.99) is               *)
(* 0.010000000000000009; under a ramp below 1 the product is rounded.          *)
ArrowsShown(o) ==
  IF arrowRevealOf(o) = One THEN RGe(arrowAlphaOf(o), R(1, 100))
  ELSE TieGt(arrowAlphaOf(o), R(1, 100), o, <<"arrowAlpha", 0>>)

(* arrowAlpha < 1.  With arrowReveal = 1 the product is the double 1 - pause,   *)
(* which is 1 at pause = 0 only; under a ramp below 1 the product is rounded.  *)
ArrowsUnderOne(o) ==
  IF arrowRevealOf(o) = One THEN RLt(arrowAlphaOf(o), One)
  ELSE TieLt(arrowAlphaOf(o), One, o, <<"arrowAlphaUnder", 0>>)

\* 5b. Arrows
FrameArrows(s, o) ==
  IF HasPts(o) /\ o.showMomentum
  THEN IF ArrowsShown(o)
       THEN LET s1 == Save(s)
                s2 == IF ArrowsUnderOne(o) THEN SetAlpha(s1, arrowAlphaOf(o)) ELSE s1
            IN Restore(Emit(s2, "drawArrows", <<o.pts>>))
       ELSE s
  ELSE s

\* 6. Particles run: pts non-empty, particleState given, reveal > 0.9
\* particles run whatever the line returned
ParticlesRunWithoutPts(o) == o.particleState /\ RGt(o.chartReveal, R(9, 10))

ParticlesRun(o) == HasPts(o) /\ o.particleState /\ RGt(o.chartReveal, R(9, 10))

\* 6. Particles
FrameParticles(s, o) ==
  IF ParticlesRun(o)
  THEN Emit(Emit(s, "spawnOnSwing", <<o.pts, o.swingMagnitude>>), "drawParticles", <<>>)
  ELSE s

\* a burst taken at any reveal
BurstFiresAnyReveal(o) == HasPts(o) /\ o.particleState /\ RGt(o.burst, Zero) /\ o.shakeState

\* burstIntensity > 0 && shake
BurstFires(o) == ParticlesRun(o) /\ RGt(o.burst, Zero) /\ o.shakeState

\* shake.amplitude = (3 + opts.swingMagnitude * 4) * burstIntensity
ShakeRearm(o) == AmpSided(RMul(RAdd(Q(3), RMul(o.swingMagnitude, Q(4))), o.burst), 0, o.rnd)

\* 7. Left edge fade
EdgeFade(s) ==
  Restore(Emit(SetComp(Save(s), "destination-out"), "fillRect", <<Q(FADE_EDGE_WIDTH)>>))

\* 8. scrubOpacity
scrubOpacityOf(o) == ProximityFade(RSub(o.pts, o.hoverX), o.chartW, o.scrubAmount)

(* scrubOpacity > 0.01, for the fade evaluated at distToLive: on the ramp the  *)
(* opacity is a rounded quotient and product, off it 0 or scrubAmount itself.  *)
OnFadeRamp(distToLive, chartW) ==
  RGe(distToLive, Q(CROSSHAIR_FADE_MIN_PX)) /\ RLt(distToLive, fadeStartOf(chartW))

CrosshairShown(distToLive, o) ==
  IF OnFadeRamp(distToLive, o.chartW)
  THEN TieGt(ProximityFade(distToLive, o.chartW, o.scrubAmount), R(1, 100), o,
             <<"scrubOpacity", 0>>)
  ELSE RGt(ProximityFade(distToLive, o.chartW, o.scrubAmount), R(1, 100))

\* crosshair.ts: dotRadius = 4 * Math.min(scrubOpacity * 3, 1)
dotRadiusOf(scrubOpacity) == RMul(Q(4), RMin(RMul(scrubOpacity, Q(3)), One))

(* What drawCrosshair and drawMultiCrosshair leave on the surface: the line    *)
(* and the labels are drawn between save and restore; the dots are filled      *)
(* after  if (dotRadius > 0.5) ctx.globalAlpha = 1  outside of them.           *)
CrosshairAlpha(s, o, scrubOpacity) ==
  IF RLt(scrubOpacity, R(1, 100)) THEN s
  ELSE IF TieGt(dotRadiusOf(scrubOpacity), R(1, 2), o, <<"dotRadius", 0>>)
    THEN SetAlpha(s, One)
  ELSE s

\* 8. Crosshair
FrameCrosshair(s, o) ==
  IF o.hoverX # Null /\ o.hoverValue # Null /\ o.hoverTime # Null /\ HasPts(o)
  THEN IF CrosshairShown(RSub(o.pts, o.hoverX), o)
       THEN CrosshairAlpha(
              Emit(s, "drawCrosshair",
                   <<o.hoverX, o.hoverValue, o.hoverTime, scrubOpacityOf(o), o.pts>>),
              o, scrubOpacityOf(o))
       ELSE s
  ELSE s

\* Restore shake translate
FrameShakeRestore(s, o, a, rx, ry) ==
  IF o.shakeState /\ (shakeXOf(o, a, rx) # Zero \/ shakeYOf(o, a, ry) # Zero)
  THEN Restore(s)
  ELSE s

\* drawFrame with the particles drawn after the left edge fade
drawFrameSurfaceParticlesLate(o, a, rx, ry) ==
  FrameShakeRestore(
  FrameCrosshair(
  FrameParticles(
  EdgeFade(
  BarsDefault(
  FrameArrows(
  FrameDot(
  FrameTimeAxis(
  FrameLine(
  BarsOverlay(
  FrameOrderbook(
  FrameGrid(
  FrameReferenceLine(
    FrameShakeApply(EntrySurface(o), o, a, rx, ry), o), o), o), o), o), o), o), o), o)), o), o), o, a, rx, ry)

\* the surface after drawFrame(ctx, layout, palette, o)
drawFrameSurface(o, a, rx, ry) ==
  FrameShakeRestore(
  FrameCrosshair(
  EdgeFade(
  BarsDefault(
  FrameParticles(
  FrameArrows(
  FrameDot(
  FrameTimeAxis(
  FrameLine(
  BarsOverlay(
  FrameOrderbook(
  FrameGrid(
  FrameReferenceLine(
    FrameShakeApply(EntrySurface(o), o, a, rx, ry), o), o), o), o), o), o), o), o), o), o)), o), o, a, rx, ry)

\* drawFrame re-arming before the decay, so that the burst value decays in its own tick
drawFrameShakeRearmFirst(o, a) ==
  IF ~o.shakeState THEN a
  ELSE IF BurstFires(o) THEN ShakeDecay(ShakeRearm(o), o.dt, o.rnd)
  ELSE ShakeDecay(a, o.dt, o.rnd)

\* shake.amplitude after drawFrame
drawFrameShake(o, a) ==
  IF ~o.shakeState THEN a
  ELSE IF BurstFires(o) THEN ShakeRearm(o)
  ELSE ShakeDecay(a, o.dt, o.rnd)

---------------------------------------------------------------------------
(* drawMultiFrame.  o.series is the list of MultiSeriesEntry: [alpha, pts,    *)
(* label] with alpha Null when the optional field is absent, pts the x of the *)
(* last point drawLine returns for the series (Null: undefined or empty) and  *)
(* label TRUE when a label is given.  o.hoverEntries is the length of the     *)
(* hoverEntries list.                                                         *)

\* s.alpha ?? 1
seriesAlphaOf(e) == IF e.alpha = Null THEN One ELSE e.alpha

\* a fade applied to every series, the first included
secondaryFadeEverySeries(o, si) ==
  IF RLt(o.chartReveal, One) THEN RMin(One, RMul(o.chartReveal, Q(2))) ELSE One

\* (si > 0 && reveal < 1) ? Math.min(1, reveal * 2) : 1     (si counted from 1 here)
secondaryFade(o, si) ==
  IF si > 1 /\ RLt(o.chartReveal, One) THEN RMin(One, RMul(o.chartReveal, Q(2))) ELSE One

combinedAlphaOf(o, si) == RMul(secondaryFade(o, si), seriesAlphaOf(o.series[si]))

(* combinedAlpha < 0.01: under a fade of 1 the product is seriesAlpha itself,  *)
(* under a fade below 1 it is rounded.                                         *)
SeriesSkipped(o, si) ==
  IF RLt(secondaryFade(o, si), One)
  THEN TieLt(combinedAlphaOf(o, si), R(1, 100), o, <<"combinedAlpha", si>>)
  ELSE RLt(combinedAlphaOf(o, si), R(1, 100))

(* combinedAlpha < 1: under a fade of 1 the product is seriesAlpha itself,     *)
(* under a fade below 1 it is rounded.                                         *)
SeriesUnderOne(o, si) ==
  IF RLt(secondaryFade(o, si), One)
  THEN TieLt(combinedAlphaOf(o, si), One, o, <<"combinedAlphaUnder", si>>)
  ELSE RLt(combinedAlphaOf(o, si), One)

\* 3. the series loop, from series si on: acc is [s, allPts]
RECURSIVE MultiSeriesLoop(_, _, _)
MultiSeriesLoop(acc, o, si) ==
  IF si > Len(o.series) THEN acc
  ELSE IF SeriesSkipped(o, si) THEN MultiSeriesLoop(acc, o, si + 1)
  ELSE LET e == o.series[si]
           s1 == Save(acc.s)
           s2 == IF SeriesUnderOne(o, si) THEN SetAlpha(s1, combinedAlphaOf(o, si)) ELSE s1
           s3 == Restore(Emit(s2, "drawLine",
                              <<scrubXOf(o), o.scrubAmount, o.chartReveal, Zero, Q(si)>>))
           pushed == IF e.pts # Null
                     THEN Append(acc.allPts,
                                 [pts |-> e.pts, label |-> e.label, alpha |-> seriesAlphaOf(e), si |-> si])
                     ELSE acc.allPts
       IN MultiSeriesLoop([s |-> s3, allPts |-> pushed], o, si + 1)

\* 5. Endpoint dots + labels, from entry i of allPts on
RECURSIVE MultiDotsLoop(_, _, _, _)
MultiDotsLoop(s, o, allPts, i) ==
  IF i > Len(allPts) THEN s
  ELSE IF RLt(allPts[i].alpha, R(1, 100)) THEN MultiDotsLoop(s, o, allPts, i + 1)
  ELSE LET entry == allPts[i]
           dotAlpha == RDiv(RSub(o.chartReveal, R(3, 10)), R(7, 10))
           showPulse == o.showPulse /\ RGt(o.chartReveal, R(6, 10)) /\ RLt(o.pauseProgress, R(1, 2))
           s1 == IF o.chartReveal = One THEN SetAlpha(Save(s), RMul(dotAlpha, entry.alpha))
                 ELSE SetAlphaRounded(Save(s), RMul(dotAlpha, entry.alpha), o,
                                      <<"dotAlphaOver", entry.si>>)
           s2 == IF showPulse /\ RGt(entry.alpha, R(1, 2))
                 THEN Emit(s1, "drawMultiDot", <<entry.pts, Q(entry.si)>>)
                 ELSE Emit(s1, "drawSimpleDot", <<entry.pts, Q(entry.si)>>)
           s3 == IF entry.label THEN Emit(s2, "fillText", <<entry.pts, Q(entry.si)>>) ELSE s2
       IN MultiDotsLoop(Restore(s3), o, allPts, i + 1)

MultiDots(s, o, allPts) ==
  IF RGt(o.chartReveal, R(3, 10)) /\ Len(allPts) > 0 THEN MultiDotsLoop(s, o, allPts, 1) ELSE s

\* 7. rightmost live dot x, from entry i of allPts on, starting at acc
RECURSIVE maxLiveDotXFrom(_, _, _)
maxLiveDotXFrom(acc, allPts, i) ==
  IF i > Len(allPts) THEN acc
  ELSE IF RLt(allPts[i].alpha, R(1, 100)) THEN maxLiveDotXFrom(acc, allPts, i + 1)
  ELSE maxLiveDotXFrom(IF RGt(allPts[i].pts, acc) THEN allPts[i].pts ELSE acc, allPts, i + 1)

maxLiveDotXOf(allPts) == maxLiveDotXFrom(Zero, allPts, 1)

\* 7. Multi-series crosshair
MultiCrosshair(s, o, allPts) ==
  IF o.hoverX # Null /\ o.hoverTime # Null /\ o.hoverEntries > 0 /\ Len(allPts) > 0
     /\ RGt(o.scrubAmount, R(1, 100))
  THEN LET scrubOpacity ==
             ProximityFade(RSub(maxLiveDotXOf(allPts), o.hoverX), o.chartW, o.scrubAmount)
       IN IF CrosshairShown(RSub(maxLiveDotXOf(allPts), o.hoverX), o)
          THEN CrosshairAlpha(
                 Emit(s, "drawMultiCrosshair",
                      <<o.hoverX, Q(o.hoverEntries), o.hoverTime, scrubOpacity,
                        maxLiveDotXOf(allPts)>>),
                 o, scrubOpacity)
          ELSE s
  ELSE s

\* 4 - 7. the stages after the series loop; l is what the loop leaves: [s, allPts]
MultiAfterSeries(l, o) ==
  MultiCrosshair(EdgeFade(MultiDots(FrameTimeAxis(l.s, o), o, l.allPts)), o, l.allPts)

\* the surface after drawMultiFrame(ctx, layout, o)
drawMultiFrameSurface(o) ==
  MultiAfterSeries(
    MultiSeriesLoop([s |-> FrameGrid(FrameReferenceLine(EntrySurface(o), o), o), allPts |-> <<>>],
                    o, 1),
    o)

---------------------------------------------------------------------------
(* drawCandleFrame.  o.lineVisible is lineVisible.length; o.pts the x of the  *)
(* last point drawLine returns when called (Null: undefined or empty);        *)
(* o.closePriceCandle, o.liveCandle, o.hoveredCandle are TRUE when given;     *)
(* o.dashYInside is pad.top <= layout.toY(closeSource.close) <= h-pad.bottom; *)
(* o.oldCandles is oldCandles.length.                                         *)

fullLineMode(o) == RGe(o.lineModeProg, R(99, 100))

revealLine(o) ==
  LET u == RSub(One, o.chartReveal)
  IN IF fullLineMode(o) THEN u ELSE RMul(RMul(u, u), u)

\* the smaller of the two, Math.min in place of Math.max
lpOfMin(o) == RMin(o.lineModeProg, revealLine(o))

\* lp = Math.max(opts.lineModeProg, revealLine)
lpOf(o) == RMax(o.lineModeProg, revealLine(o))

\* the accent share taken as lineModeProg itself
colorBlendUnscaled(o) == IF RGt(lpOf(o), R(1, 1000)) THEN o.lineModeProg ELSE One

\* colorBlend = lp > 0.001 ? opts.lineModeProg / lp : 1
colorBlendOf(o) == IF RGt(lpOf(o), R(1, 1000)) THEN RDiv(o.lineModeProg, lpOf(o)) ELSE One

\* 1. Grid
CandleGrid(s, o) ==
  LET gridAlpha == revealRamp(o.chartReveal, R(25, 100), R(6, 10))
  IN IF o.showGrid /\ RGt(gridAlpha, R(1, 100))
     THEN LET s1 == Save(s)
              s2 == IF RLt(gridAlpha, One) THEN SetAlpha(s1, gridAlpha) ELSE s1
          IN Restore(Emit(s2, "drawGrid", <<>>))
     ELSE s

\* 2. the morph line is drawn
CandleLineDrawn(o) == RGt(lpOf(o), R(1, 100)) /\ o.lineVisible >= 2

\* 2. Line
CandleLine(s, o) ==
  IF CandleLineDrawn(o)
  THEN Restore(Emit(SetAlpha(Save(s), lpOf(o)), "drawLine",
                    <<scrubXOf(o), o.scrubAmount, o.chartReveal,
                      B(RGt(o.lineModeProg, R(1, 100))), colorBlendOf(o),
                      B(~fullLineMode(o)), o.lineModeProg>>))
  ELSE s

\* linePts: set only when the line was drawn
linePtsOf(o) == IF CandleLineDrawn(o) THEN o.pts ELSE Null

closeAlphaOf(o) == revealRamp(o.chartReveal, R(4, 10), R(8, 10))

\* closeAlpha * lp * (1 - opts.scrubAmount * 0.2)
dashAlphaOf(o) ==
  RMul(RMul(closeAlphaOf(o), lpOf(o)), RSub(One, RMul(o.scrubAmount, R(2, 10))))

\* the accent dash is stroked
CandleDashDue(o) ==
  /\ (o.closePriceCandle \/ o.liveCandle) /\ RGt(closeAlphaOf(o), R(1, 100))
  /\ RGt(lpOf(o), R(1, 100)) /\ ~fullLineMode(o) /\ o.dashYInside

(* 3. Close price line: candle-coloured variant, then accent dash.  The dash   *)
(* alpha is a rounded product of three doubles: where it is 1 as a real        *)
(* number (a negative scrubAmount) the double may exceed 1 and be ignored.     *)
CandleClosePrice(s, o) ==
  IF (o.closePriceCandle \/ o.liveCandle) /\ RGt(closeAlphaOf(o), R(1, 100))
  THEN LET s1 == IF RLt(lpOf(o), R(99, 100))
                 THEN Restore(Emit(SetAlpha(Save(s), RMul(closeAlphaOf(o), RSub(One, lpOf(o)))),
                                   "drawClosePrice", <<o.scrubAmount>>))
                 ELSE s
       IN IF RGt(lpOf(o), R(1, 100)) /\ ~fullLineMode(o) /\ o.dashYInside
          THEN Restore(Emit(SetAlphaRounded(Save(s1), dashAlphaOf(o), o,
                                            <<"dashAlphaOver", 0>>),
                            "stroke", <<>>))
          ELSE s1
  ELSE s

\* candleAlpha = opts.chartReveal * (1 - lp)
candleAlphaOf(o) == RMul(o.chartReveal, RSub(One, lpOf(o)))

(* candleAlpha > 0.01.  At reveal = 1 the two are equal as reals at lp = 0.99  *)
(* only, where the double 1 * (1 - 0.99) is 0.010000000000000009; at a reveal  *)
(* below 1 the product is rounded.                                             *)
CandlesShown(o) ==
  IF o.chartReveal = One THEN RGe(candleAlphaOf(o), R(1, 100))
  ELSE TieGt(candleAlphaOf(o), R(1, 100), o, <<"candleAlpha", 0>>)

(* candleAlpha < 1.  At reveal = 1 the product is the double 1 - lp, which is  *)
(* 1 at lp = 0 only; at another reveal the product is rounded.                 *)
CandlesUnderOne(o) ==
  IF o.chartReveal = One THEN RLt(candleAlphaOf(o), One)
  ELSE TieLt(candleAlphaOf(o), One, o, <<"candleAlphaUnder", 0>>)

(* ctx.globalAlpha = share * candleAlpha, share being 1 - morphT or morphT: a  *)
(* product of doubles, exact where both factors are 1.                         *)
SetMorphAlpha(s, o, share, g) ==
  IF o.chartReveal = One /\ share = One THEN SetAlpha(s, RMul(share, candleAlphaOf(o)))
  ELSE SetAlphaRounded(s, RMul(share, candleAlphaOf(o)), o, g)

\* the two widths drawn under each other's alpha
CandleCandlesSwapped(s, o) ==
  IF CandlesShown(o)
  THEN LET s1 == Clip(Save(s), "plot")
           accentCol == B(RGt(lpOf(o), R(1, 100)))
       IN IF RGe(o.morphT, Zero) /\ o.oldCandles > 0
          THEN LET s2 == Emit(SetMorphAlpha(s1, o, o.morphT, <<"oldAlphaOver", 0>>),
                              "drawCandlesticks", <<Zero, accentCol, lpOf(o)>>)
                   s3 == Emit(SetMorphAlpha(s2, o, RSub(One, o.morphT), <<"newAlphaOver", 0>>),
                              "drawCandlesticks", <<One, accentCol, lpOf(o)>>)
               IN Restore(SetAlpha(s3, One))
          ELSE LET s2 == IF CandlesUnderOne(o) THEN SetAlpha(s1, candleAlphaOf(o)) ELSE s1
               IN Restore(Emit(s2, "drawCandlesticks", <<One, accentCol, lpOf(o)>>))
  ELSE s

\* 4. Candles: both widths during a width morph, else the display width
CandleCandles(s, o) ==
  IF CandlesShown(o)
  THEN LET s1 == Clip(Save(s), "plot")
           accentCol == B(RGt(lpOf(o), R(1, 100)))
       IN IF RGe(o.morphT, Zero) /\ o.oldCandles > 0
          THEN LET s2 == Emit(SetMorphAlpha(s1, o, RSub(One, o.morphT), <<"oldAlphaOver", 0>>),
                              "drawCandlesticks", <<Zero, accentCol, lpOf(o)>>)
                   s3 == Emit(SetMorphAlpha(s2, o, o.morphT, <<"newAlphaOver", 0>>),
                              "drawCandlesticks", <<One, accentCol, lpOf(o)>>)
               IN Restore(SetAlpha(s3, One))
          ELSE LET s2 == IF CandlesUnderOne(o) THEN SetAlpha(s1, candleAlphaOf(o)) ELSE s1
               IN Restore(Emit(s2, "drawCandlesticks", <<One, accentCol, lpOf(o)>>))
  ELSE s

\* lp > 0.5 && linePts && linePts.length > 0 && reveal > 0.3
CandleDotDue(o) ==
  RGt(lpOf(o), R(1, 2)) /\ linePtsOf(o) # Null /\ RGt(o.chartReveal, R(3, 10))

\* dotAlpha = ((lp - 0.5) * 2) * ((reveal - 0.3) / 0.7)
candleDotAlphaOf(o) ==
  RMul(RMul(RSub(lpOf(o), R(1, 2)), Q(2)), RDiv(RSub(o.chartReveal, R(3, 10)), R(7, 10)))

(* 5. Live dot.  ctx.globalAlpha = dotAlpha is a rounded product, the double  *)
(* 1 where lp and reveal are both 1; elsewhere a product that is 1 as a real  *)
(* number may be a double above 1, which the canvas ignores.                  *)
CandleDot(s, o) ==
  IF CandleDotDue(o)
  THEN LET showPulse == RGt(lpOf(o), R(8, 10)) /\ RGt(o.chartReveal, R(6, 10))
       IN IF TieGt(candleDotAlphaOf(o), R(1, 100), o, <<"dotAlpha", 0>>)
          THEN Restore(Emit(
                 IF lpOf(o) = One /\ o.chartReveal = One
                 THEN SetAlpha(Save(s), candleDotAlphaOf(o))
                 ELSE SetAlphaRounded(Save(s), candleDotAlphaOf(o), o,
                                      <<"candleDotAlphaOver", 0>>),
                 "drawDot", <<linePtsOf(o), B(showPulse), o.scrubAmount>>))
          ELSE s
  ELSE s

\* 6. Time axis
CandleTimeAxis(s, o) ==
  LET timeAlpha == revealRamp(o.chartReveal, R(25, 100), R(6, 10))
  IN IF RGt(timeAlpha, R(1, 100))
     THEN LET s1 == Save(s)
              s2 == IF RLt(timeAlpha, One) THEN SetAlpha(s1, timeAlpha) ELSE s1
          IN Restore(Emit(s2, "drawTimeAxis", <<>>))
     ELSE s

\* bgAlpha = 1 - opts.chartReveal
bgAlphaOf(o) == RSub(One, o.chartReveal)

\* bgEmptyAlpha = (1 - opts.loadingAlpha) * bgAlpha
bgEmptyAlphaOf(o) == RMul(RSub(One, o.loadingAlpha), bgAlphaOf(o))

(* bgAlpha > 0.01 and bgEmptyAlpha > 0.01.  bgAlpha and 0.01 are equal as      *)
(* reals at reveal = 0.99 only, where the double 1 - 0.99 is                   *)
(* 0.010000000000000009; with loadingAlpha = 0 bgEmptyAlpha is that double,    *)
(* else a rounded product.                                                     *)
EmptyShown(o) ==
  /\ RGe(bgAlphaOf(o), R(1, 100))
  /\ IF o.loadingAlpha = Zero THEN RGe(bgEmptyAlphaOf(o), R(1, 100))
     ELSE TieGt(bgEmptyAlphaOf(o), R(1, 100), o, <<"bgEmptyAlpha", 0>>)

\* 8. Reverse morph empty overlay
CandleEmpty(s, o) ==
  IF o.showEmptyOverlay /\ EmptyShown(o)
  THEN Emit(s, "drawEmpty", <<bgEmptyAlphaOf(o)>>)
  ELSE s

\* opts.hoverTime ?? 0
hoverTimeOr0(o) == IF o.hoverTime = Null THEN Zero ELSE o.hoverTime

\* 9. Crosshair
CandleCrosshair(s, o) ==
  IF RGt(o.chartReveal, R(7, 10)) /\ o.hoveredCandle /\ o.hoverX # Null
     /\ RGt(o.scrubAmount, R(1, 100))
  THEN IF RGt(o.lineModeProg, R(1, 2))
       THEN Emit(s, "drawLineModeCrosshair", <<o.hoverX, hoverTimeOr0(o), o.scrubAmount>>)
       ELSE Emit(s, "drawCandleCrosshair", <<o.hoverX, hoverTimeOr0(o), o.scrubAmount>>)
  ELSE s

\* the surface after drawCandleFrame(ctx, layout, palette, o)
drawCandleFrameSurface(o) ==
  CandleCrosshair(
  CandleEmpty(
  EdgeFade(
  CandleTimeAxis(
  CandleDot(
  BarsDefault(
  CandleCandles(
  CandleClosePrice(
  CandleLine(
  BarsOverlay(
    CandleGrid(EntrySurface(o), o), o), o), o), o), o), o), o)), o), o)

---------------------------------------------------------------------------
(* drawBars.  o is the BarDrawOptions together with the ChartLayout and       *)
(* BarLayout fields the function reads; a bar is its value and the pixel      *)
(* layout.toX returns for its centre.  s is the surface, base the             *)
(* globalAlpha read at entry.                                                 *)

\* pxPerSec = chartW / (layout.rightEdge - layout.leftEdge)
pxPerSecOf(o) == RDiv(o.chartW, o.windowSecs)

\* barPxWidth = Math.max(1, barWidthSecs * pxPerSec - 2)
barPxWidthOf(o) == RMax(One, RSub(RMul(o.barWidthSecs, pxPerSecOf(o)), Q(2)))

\* cornerR = barPxWidth > 6 ? 1.5 : 0
cornerROf(o) ==
  IF TieGt(barPxWidthOf(o), Q(6), o, <<"barPxWidth", 0>>) THEN R(3, 2) ELSE Zero

\* x = centerX - halfBar
barLeftOf(o, b) == RSub(b.centerX, RDiv(barPxWidthOf(o), Q(2)))

\* barH = (b.value / barLayout.maxValue) * barLayout.maxHeight * revealProgress
barHOf(o, b) == RMul(RMul(RDiv(b.value, o.maxValue), o.maxHeight), o.revealProgress)

\* the three "continue" tests of the bar loop, for the i-th bar
BarDrawn(o, i) ==
  /\ RGt(o.bars[i].value, Zero)
  /\ ~(TieLt(RAdd(barLeftOf(o, o.bars[i]), barPxWidthOf(o)), o.padLeft, o, <<"barLeftOfPlot", i>>)
       \/ TieGt(barLeftOf(o, o.bars[i]), RAdd(o.padLeft, o.chartW), o, <<"barRightOfPlot", i>>))
  /\ ~TieLt(barHOf(o, o.bars[i]), R(1, 2), o, <<"barH", i>>)

\* scrub dimming that never returns to the base alpha
BarScrubAlphaDimOnly(s, o, base, b) ==
  IF o.scrubX # Null /\ RGt(o.scrubAmount, R(5, 100))
  THEN IF RGt(b.centerX, o.scrubX)
       THEN SetAlpha(s, RMul(base, RSub(One, RMul(o.scrubAmount, R(6, 10)))))
       ELSE s
  ELSE s

\* Scrub dimming: bars to the right of scrubX are dimmed
BarScrubAlpha(s, o, base, b) ==
  IF o.scrubX # Null /\ RGt(o.scrubAmount, R(5, 100))
  THEN IF RGt(b.centerX, o.scrubX)
       THEN SetAlpha(s, RMul(base, RSub(One, RMul(o.scrubAmount, R(6, 10)))))
       ELSE SetAlpha(s, base)
  ELSE s

\* rounded top corners (a path and fill) or a plain fillRect
BarFill(s, o, b, i) ==
  IF RGt(cornerROf(o), Zero)
     /\ TieGt(barHOf(o, b), RMul(cornerROf(o), Q(2)), o, <<"barRounded", i>>)
  THEN Emit(s, "fill", <<b.centerX, Q(i)>>)
  ELSE Emit(s, "fillRect", <<b.centerX, Q(i)>>)

\* for (let i = 0; i < bars.length; i++), from the i-th bar on
RECURSIVE BarLoop(_, _, _, _)
BarLoop(s, o, base, i) ==
  IF i > Len(o.bars) THEN s
  ELSE IF BarDrawn(o, i)
    THEN BarLoop(BarFill(BarScrubAlpha(s, o, base, o.bars[i]), o, o.bars[i], i), o, base, i + 1)
    ELSE BarLoop(s, o, base, i + 1)

\* fontSize = layout.w > 500 ? 9 : 8
fontSizeOf(o) == IF RGt(o.w, Q(500)) THEN Q(9) ELSE Q(8)

\* x is a whole number of 2^-k: the double holds it as it is
RECURSIVE PowerOfTwo(_)
PowerOfTwo(d) == d = 1 \/ (d > 1 /\ d % 2 = 0 /\ PowerOfTwo(d \div 2))
Dyadic(x) == PowerOfTwo(x.d)

(* centerX > pad.left + chartW: the sum is one double, the real sum when both  *)
(* terms are dyadic; otherwise it may lie on either side of a centerX that     *)
(* equals the real sum.                                                        *)
BarLabelRightOfPlot(o, i) ==
  IF Dyadic(o.padLeft) /\ Dyadic(o.chartW)
  THEN RGt(o.bars[i].centerX, RAdd(o.padLeft, o.chartW))
  ELSE TieGt(o.bars[i].centerX, RAdd(o.padLeft, o.chartW), o, <<"barLabelRightOfPlot", i>>)

\* the "continue" tests of the label loop, for the i-th bar
BarLabelDrawn(o, i) ==
  /\ RGt(o.bars[i].value, Zero)
  /\ ~(RLt(o.bars[i].centerX, o.padLeft) \/ BarLabelRightOfPlot(o, i))
  /\ ~TieLt(barHOf(o, o.bars[i]), RAdd(fontSizeOf(o), Q(6)), o, <<"barLabelFit", i>>)

RECURSIVE BarLabelLoop(_, _, _)
BarLabelLoop(s, o, i) ==
  IF i > Len(o.bars) THEN s
  ELSE IF BarLabelDrawn(o, i)
    THEN BarLabelLoop(Emit(s, "fillText", <<o.bars[i].centerX, Q(i)>>), o, i + 1)
    ELSE BarLabelLoop(s, o, i + 1)

\* Labels (optional): save, label alpha, one fillText per fitting bar, restore
BarLabels(s, o, base) ==
  IF o.showLabels /\ RGt(o.revealProgress, R(1, 2))
  THEN Restore(BarLabelLoop(
         SetAlpha(Save(s),
                  RMul(base, RMin(One, RMul(RSub(o.revealProgress, R(1, 2)), Q(4))))),
         o, 1))
  ELSE s

\* drawBars returning without its last assignment
BarsKeepAlpha(s, base) == s

\* ctx.globalAlpha = baseAlpha
BarsRestoreAlpha(s, base) == SetAlpha(s, base)

drawBarsSurface(s, o) ==
  IF Len(o.bars) = 0 \/ RLe(o.maxValue, Zero) THEN s
  ELSE BarsRestoreAlpha(BarLabels(BarLoop(s, o, s.alpha, 1), o, s.alpha), s.alpha)

---------------------------------------------------------------------------
(* The comparisons of a call that tie, and the sides of SHAKE_MIN_AMPLITUDE    *)
(* the amplitude it stores can take.                                           *)

\* the crosshair comparisons that tie for the fade evaluated at distToLive
CrosshairTies(distToLive, o) ==
  IF ~OnFadeRamp(distToLive, o.chartW) THEN {}
  ELSE {g \in {<<"scrubOpacity", 0>>} :
          ProximityFade(distToLive, o.chartW, o.scrubAmount) = R(1, 100)}
       \cup {g \in {<<"dotRadius", 0>>} :
          dotRadiusOf(ProximityFade(distToLive, o.chartW, o.scrubAmount)) = R(1, 2)}

FrameTies(o) ==
  {g \in {<<"arrowAlpha", 0>>} :
     /\ HasPts(o) /\ o.showMomentum
     /\ arrowRevealOf(o) # One /\ arrowAlphaOf(o) = R(1, 100)}
  \cup {g \in {<<"arrowAlphaUnder", 0>>} :
     /\ HasPts(o) /\ o.showMomentum
     /\ arrowRevealOf(o) # One /\ arrowAlphaOf(o) = One}
  \cup (IF o.hoverX # Null /\ o.hoverValue # Null /\ o.hoverTime # Null /\ HasPts(o)
        THEN CrosshairTies(RSub(o.pts, o.hoverX), o)
        ELSE {})

SeriesTies(o) ==
  {<<"combinedAlpha", si>> :
     si \in {k \in DOMAIN o.series :
               RLt(secondaryFade(o, k), One) /\ combinedAlphaOf(o, k) = R(1, 100)}}
  \cup
  {<<"combinedAlphaUnder", si>> :
     si \in {k \in DOMAIN o.series :
               RLt(secondaryFade(o, k), One) /\ combinedAlphaOf(o, k) = One}}

(* the endpoint dots whose alpha (reveal - 0.3) / 0.7 * entry.alpha is 1 as a  *)
(* real number; at reveal = 1 the quotient is the double 1 and the product     *)
(* entry.alpha itself.                                                         *)
MultiDotTies(o) ==
  IF RGt(o.chartReveal, R(3, 10)) /\ o.chartReveal # One
  THEN LET allPts == MultiSeriesLoop([s |-> BaseSurface, allPts |-> <<>>], o, 1).allPts
       IN {<<"dotAlphaOver", allPts[i].si>> :
             i \in {k \in DOMAIN allPts :
                      /\ RGe(allPts[k].alpha, R(1, 100))
                      /\ RMul(RDiv(RSub(o.chartReveal, R(3, 10)), R(7, 10)), allPts[k].alpha) = One}}
  ELSE {}

\* for o with the comparisons of the series loop decided
MultiCrosshairTies(o) ==
  IF o.hoverX # Null /\ o.hoverTime # Null /\ o.hoverEntries > 0
     /\ Len(MultiSeriesLoop([s |-> BaseSurface, allPts |-> <<>>], o, 1).allPts) > 0
     /\ RGt(o.scrubAmount, R(1, 100))
  THEN CrosshairTies(
         RSub(maxLiveDotXOf(MultiSeriesLoop([s |-> BaseSurface, allPts |-> <<>>], o, 1).allPts),
              o.hoverX),
         o)
  ELSE {}

CandleTies(o) ==
  {g \in {<<"candleAlpha", 0>>} : o.chartReveal # One /\ candleAlphaOf(o) = R(1, 100)}
  \cup {g \in {<<"candleAlphaUnder", 0>>} :
          /\ o.chartReveal # One /\ candleAlphaOf(o) = One
          /\ ~(RGe(o.morphT, Zero) /\ o.oldCandles > 0)}
  \cup {g \in {<<"oldAlphaOver", 0>>} :
          /\ RGe(o.morphT, Zero) /\ o.oldCandles > 0
          /\ RGe(candleAlphaOf(o), R(1, 100))
          /\ ~(o.chartReveal = One /\ o.morphT = Zero)
          /\ RMul(RSub(One, o.morphT), candleAlphaOf(o)) = One}
  \cup {g \in {<<"newAlphaOver", 0>>} :
          /\ RGe(o.morphT, Zero) /\ o.oldCandles > 0
          /\ RGe(candleAlphaOf(o), R(1, 100))
          /\ ~(o.chartReveal = One /\ o.morphT = One)
          /\ RMul(o.morphT, candleAlphaOf(o)) = One}
  \cup {g \in {<<"dotAlpha", 0>>} : CandleDotDue(o) /\ candleDotAlphaOf(o) = R(1, 100)}
  \cup {g \in {<<"candleDotAlphaOver", 0>>} :
          /\ CandleDotDue(o) /\ candleDotAlphaOf(o) = One
          /\ ~(lpOf(o) = One /\ o.chartReveal = One)}
  \cup {g \in {<<"dashAlphaOver", 0>>} : CandleDashDue(o) /\ dashAlphaOf(o) = One}
  \cup {g \in {<<"bgEmptyAlpha", 0>>} :
          /\ o.showEmptyOverlay /\ o.loadingAlpha # Zero
          /\ RGe(bgAlphaOf(o), R(1, 100)) /\ bgEmptyAlphaOf(o) = R(1, 100)}

\* the comparisons of drawBars that tie for o: first the one cornerR hangs on
BarsTies(o) ==
  IF Len(o.bars) = 0 \/ RLe(o.maxValue, Zero) THEN {}
  ELSE {g \in {<<"barPxWidth", 0>>} : barPxWidthOf(o) = Q(6)}

\* then those of the two loops, for o with the first decided
BarsLoopTies(o) ==
  IF Len(o.bars) = 0 \/ RLe(o.maxValue, Zero) THEN {}
  ELSE LET on == {i \in DOMAIN o.bars : RGt(o.bars[i].value, Zero)}
       IN {<<"barLeftOfPlot", i>> :
             i \in {k \in on : RAdd(barLeftOf(o, o.bars[k]), barPxWidthOf(o)) = o.padLeft}}
          \cup {<<"barRightOfPlot", i>> :
             i \in {k \in on : barLeftOf(o, o.bars[k]) = RAdd(o.padLeft, o.chartW)}}
          \cup {<<"barH", i>> : i \in {k \in on : barHOf(o, o.bars[k]) = R(1, 2)}}
          \cup {<<"barRounded", i>> :
             i \in {k \in on : /\ RGt(cornerROf(o), Zero)
                                /\ barHOf(o, o.bars[k]) = RMul(cornerROf(o), Q(2))}}
          \cup {<<"barLabelRightOfPlot", i>> :
             i \in {k \in on : /\ o.showLabels /\ RGt(o.revealProgress, R(1, 2))
                                /\ ~(Dyadic(o.padLeft) /\ Dyadic(o.chartW))
                                /\ o.bars[k].centerX = RAdd(o.padLeft, o.chartW)}}
          \cup {<<"barLabelFit", i>> :
             i \in {k \in on : /\ o.showLabels /\ RGt(o.revealProgress, R(1, 2))
                                /\ barHOf(o, o.bars[k]) = RAdd(fontSizeOf(o), Q(6))}}

\* the comparisons that tie for o and do not hang on another one
TiedGuards(o) ==
  CASE o.fn = "drawFrame" -> FrameTies(o)
    [] o.fn = "drawMultiFrame" -> SeriesTies(o)
    [] o.fn = "drawCandleFrame" -> CandleTies(o)
    [] o.fn = "drawBars" -> BarsTies(o)
    [] OTHER -> {}

\* those that tie for o once the comparisons of TiedGuards are decided
LaterTies(o) ==
  CASE o.fn = "drawMultiFrame" -> MultiCrosshairTies(o) \cup MultiDotTies(o)
    [] o.fn = "drawBars" -> BarsLoopTies(o)
    [] OTHER -> {}

\* the sides the amplitude stored by the call can take, a the amplitude at entry
RoundingsAt(o, a) ==
  IF o.fn # "drawFrame" THEN {0}
  ELSE IF ~o.shakeState THEN {0}
  ELSE IF BurstFires(o)
    THEN AmpRoundings(Amp(RMul(RAdd(Q(3), RMul(o.swingMagnitude, Q(4))), o.burst), 0))
  ELSE IF o.dt = 0 \/ (a.e = 0 /\ o.dt = MsPerSec) THEN {0}
  ELSE AmpRoundings(Amp(a.m, a.e + o.dt))

---------------------------------------------------------------------------
(* Inputs.  Each set is a union of slices: one dimension group varies over    *)
(* its grid while the others sit at a base value.                             *)

Merge(base, over) ==
  [k \in DOMAIN base \cup DOMAIN over |-> IF k \in DOMAIN over THEN over[k] ELSE base[k]]

NoOpts == [fn |-> "none"]

\* Math.random() returns a value of [0, 1)
RandomValues == {Zero, R(1, 2), R(3, 4)}

Reveals == {Zero, R(1, 100), R(1, 5), R(3, 10), R(2, 5), R(3, 5), R(7, 10), R(9, 10), R(19, 20), One}

LayersOn ==
  [referenceLine |-> TRUE, showGrid |-> TRUE, orderbookData |-> TRUE, orderbookState |-> TRUE,
   bars |-> TRUE, barShowLabels |-> TRUE, showFill |-> TRUE, showMomentum |-> TRUE,
   showPulse |-> TRUE, particleState |-> TRUE]
LayersOff ==
  [referenceLine |-> FALSE, showGrid |-> FALSE, orderbookData |-> FALSE, orderbookState |-> FALSE,
   bars |-> FALSE, barShowLabels |-> FALSE, showFill |-> FALSE, showMomentum |-> FALSE,
   showPulse |-> FALSE, particleState |-> FALSE]
LayersOdd ==
  [referenceLine |-> TRUE, showGrid |-> FALSE, orderbookData |-> TRUE, orderbookState |-> FALSE,
   bars |-> TRUE, barShowLabels |-> FALSE, showFill |-> TRUE, showMomentum |-> FALSE,
   showPulse |-> TRUE, particleState |-> FALSE]
LayersEven ==
  [referenceLine |-> FALSE, showGrid |-> TRUE, orderbookData |-> FALSE, orderbookState |-> TRUE,
   bars |-> FALSE, barShowLabels |-> TRUE, showFill |-> FALSE, showMomentum |-> TRUE,
   showPulse |-> FALSE, particleState |-> TRUE]
LayerSets == {LayersOn, LayersOff, LayersOdd, LayersEven}

FrameBase ==
  Merge(LayersOn,
    [fn |-> "drawFrame", shakeState |-> FALSE, dt |-> 1000, chartReveal |-> One,
     pauseProgress |-> Zero, barMode |-> "overlay", swingMagnitude |-> One, burst |-> Zero,
     hoverX |-> Q(100), hoverValue |-> Q(42), hoverTime |-> Q(7), scrubAmount |-> One,
     chartW |-> Q(300), pts |-> Q(200), entryAlpha |-> One])

FrameLayerInputs ==
  { Merge(Merge(FrameBase, l), x) :
      l \in LayerSets,
      x \in [chartReveal : Reveals, pauseProgress : {Zero, R(1, 2), One},
             barMode : {"overlay", "default"}, pts : {Null, Q(200)}] }

\* the layer switches together with the shake state and the burst
FrameOrderInputs ==
  { Merge(Merge(FrameBase, l), x) :
      l \in LayerSets,
      x \in [chartReveal : {Zero, R(3, 10), R(19, 20), One},
             barMode : {"overlay", "default"}, pts : {Null, Q(200)},
             shakeState : BOOLEAN, burst : {Zero, One}] }

FrameHoverInputs ==
  { Merge(FrameBase, x) :
      x \in [chartReveal : {Zero, One}, pts : {Null, Q(200)},
             hoverX : {Null, Q(100), Q(150), Q(195), Q(198)},
             hoverValue : {Null, Q(42)}, hoverTime : {Null, Q(7)},
             scrubAmount : {Zero, R(1, 100), R(1, 20), R(1, 10), One},
             chartW : {Q(300), Q(100)}] }

FrameShakeInputs ==
  { Merge(FrameBase, x) :
      x \in [shakeState : BOOLEAN, dt : {0, 125, 1000}, burst : {Zero, One}] }
  \cup
  \* the rest of a second after its first eighth; the time that brings
  \* 2.14801 px to within 10^-5 px of SHAKE_MIN_AMPLITUDE
  { Merge(FrameBase, x) : x \in [shakeState : {TRUE}, dt : {875, 382}] }
  \cup
  \* the bursts whose amplitude 3 * burst is below SHAKE_MIN_AMPLITUDE (3/20),
  \* and SHAKE_MIN_AMPLITUDE as a real (3/15)
  { Merge(FrameBase, x) :
      x \in [shakeState : {TRUE}, dt : {125}, burst : {R(1, 20), R(1, 15)},
             swingMagnitude : {Zero}] }
  \cup
  \* a burst on offer that does not fire: no particleState, no line points,
  \* reveal at 0.9
  { Merge(FrameBase, Merge([shakeState |-> TRUE, dt |-> 125, burst |-> One], x)) :
      x \in {[particleState |-> FALSE], [pts |-> Null], [chartReveal |-> R(9, 10)]} }

\* MultiSeriesEntry values
SeriesShown == [alpha |-> Null, pts |-> Q(200), label |-> TRUE]
SeriesFaint == [alpha |-> R(1, 20), pts |-> Q(120), label |-> FALSE]
SeriesHidden == [alpha |-> R(1, 200), pts |-> Q(250), label |-> TRUE]
SeriesEdge == [alpha |-> R(1, 100), pts |-> Q(220), label |-> TRUE]
SeriesNoPts == [alpha |-> R(3, 5), pts |-> Null, label |-> FALSE]
SeriesLeft == [alpha |-> One, pts |-> Q(-10), label |-> FALSE]
SeriesEntries == {SeriesShown, SeriesFaint, SeriesHidden, SeriesEdge, SeriesNoPts, SeriesLeft}

\* the lists of at most n series entries
RECURSIVE SeriesLists(_)
SeriesLists(n) ==
  IF n = 0 THEN {<<>>}
  ELSE SeriesLists(n - 1) \cup
       { Append(l, e) : l \in {k \in SeriesLists(n - 1) : Len(k) = n - 1}, e \in SeriesEntries }

MultiBase ==
  [fn |-> "drawMultiFrame", chartReveal |-> One, pauseProgress |-> Zero,
   referenceLine |-> TRUE, showGrid |-> TRUE, showPulse |-> TRUE,
   series |-> <<SeriesShown, SeriesFaint>>,
   hoverX |-> Q(150), hoverTime |-> Q(7), hoverEntries |-> 2, scrubAmount |-> One,
   chartW |-> Q(300), entryAlpha |-> One]

\* reveal values handed to drawMultiFrame
MultiReveals == Reveals \cup {R(1, 10), R(1, 2)}

MultiLayerInputs ==
  { Merge(MultiBase, x) :
      x \in [chartReveal : MultiReveals, series : SeriesLists(MaxSeries),
             showPulse : BOOLEAN, pauseProgress : {Zero, One}] }
  \cup
  { Merge(MultiBase, x) :
      x \in [chartReveal : Reveals, referenceLine : BOOLEAN, showGrid : BOOLEAN] }

MultiHoverInputs ==
  { Merge(MultiBase, x) :
      x \in [chartReveal : {Zero, One},
             series : {<<>>, <<SeriesShown>>, <<SeriesLeft>>, <<SeriesShown, SeriesFaint>>},
             hoverX : {Null, Q(-20), Q(100), Q(150), Q(196)}, hoverTime : {Null, Q(7)},
             hoverEntries : {0, 2}, scrubAmount : {Zero, R(1, 100), R(1, 2)}] }

CandleBase ==
  [fn |-> "drawCandleFrame", chartReveal |-> One, lineModeProg |-> Zero, showGrid |-> TRUE,
   bars |-> TRUE, barMode |-> "overlay", barShowLabels |-> FALSE,
   lineVisible |-> 2, pts |-> Q(200), closePriceCandle |-> TRUE, liveCandle |-> TRUE,
   dashYInside |-> TRUE, morphT |-> Q(-1), oldCandles |-> 0,
   scrubAmount |-> One, hoverX |-> Q(100), hoverValue |-> Q(42), hoverTime |-> Q(7),
   hoveredCandle |-> TRUE, showEmptyOverlay |-> FALSE, loadingAlpha |-> Zero,
   entryAlpha |-> One]

CandleReveals == {Zero, R(1, 100), R(3, 10), R(1, 2), R(7, 10), R(4, 5), R(19, 20), One}
LineModeProgs == {Zero, R(1, 100), R(1, 2), R(9, 10), R(99, 100), One}

CandleLayerInputs ==
  { Merge(CandleBase, x) :
      x \in [chartReveal : CandleReveals, lineModeProg : LineModeProgs,
             morphT : {Q(-1), R(-1, 2), Zero, R(1, 2), One}, oldCandles : {0, 3}] }
  \cup
  { Merge(CandleBase, x) :
      x \in [chartReveal : CandleReveals, lineModeProg : LineModeProgs,
             lineVisible : {1, 2}, pts : {Null, Q(200)}, barMode : {"overlay", "default"}] }
  \cup
  { Merge(CandleBase, x) :
      x \in [chartReveal : CandleReveals, lineModeProg : {Zero, R(1, 2), One},
             showGrid : BOOLEAN, bars : BOOLEAN, closePriceCandle : BOOLEAN,
             liveCandle : BOOLEAN, dashYInside : BOOLEAN] }
  \cup
  { Merge(CandleBase, x) :
      x \in [chartReveal : CandleReveals, showEmptyOverlay : {TRUE},
             loadingAlpha : {Zero, R(1, 2), One}] }
  \cup
  \* the band where lp is near the 0.001 gate of colorBlend
  { Merge(CandleBase, x) :
      x \in [chartReveal : {R(4, 5), R(9, 10), R(19, 20), One},
             lineModeProg : {R(1, 2000), R(1, 1000), R(1, 500)}] }

CandleHoverInputs ==
  { Merge(CandleBase, x) :
      x \in [chartReveal : {Zero, R(7, 10), R(4, 5), One}, lineModeProg : {Zero, R(1, 2), One},
             hoverX : {Null, Q(100)}, hoverValue : {Null, Q(42)}, hoverTime : {Null, Q(7)},
             hoveredCandle : BOOLEAN, scrubAmount : {Zero, R(1, 100), R(1, 2)}] }

(* Inputs at which a computed alpha, opacity or radius equals the value it is  *)
(* compared with, under an entry globalAlpha of 1 and of 1/2.                  *)
FrameRoundingInputs ==
  { Merge(FrameBase, x) :
      x \in [chartReveal : {R(307, 1000), R(4, 5), One},
             pauseProgress : {R(49, 50), R(99, 100)},
             hoverX : {Q(190)}, chartW : {Q(100)}, scrubAmount : {R(1, 20), R(5, 24)},
             entryAlpha : {R(1, 2), One}] }

MultiRoundingInputs ==
  { Merge(MultiBase, x) :
      x \in [chartReveal : {R(1, 10), One}, series : {<<SeriesShown, SeriesFaint>>},
             hoverX : {Q(190)}, chartW : {Q(100)}, scrubAmount : {R(1, 20), R(5, 24), One},
             entryAlpha : {R(1, 2), One}] }

CandleRoundingInputs ==
  { Merge(CandleBase, x) :
      x \in [chartReveal : {R(1, 2), R(49, 50), R(99, 100), One},
             lineModeProg : {Zero, R(49, 50), R(99, 100)},
             showEmptyOverlay : BOOLEAN, loadingAlpha : {Zero, R(1, 2)},
             entryAlpha : {R(1, 2), One}] }

ComposerInputs ==
  FrameLayerInputs \cup FrameHoverInputs \cup MultiLayerInputs \cup MultiHoverInputs
  \cup CandleLayerInputs \cup CandleHoverInputs
  \cup FrameRoundingInputs \cup MultiRoundingInputs \cup CandleRoundingInputs

---------------------------------------------------------------------------
(* The caller: builds the per-tick bundle, calls a composer, discards.       *)

NoReplay == [done |-> FALSE]

\* runTicks = -1: the observer follows no run
InitFrom(amplitudes, ticks) ==
  /\ pc = "idle"
  /\ opts = NoOpts
  /\ shake \in amplitudes
  /\ ampIn = AmpZero
  /\ ctx = BaseSurface
  /\ runStart = shake
  /\ runElapsed = 0
  /\ runTicks = ticks
  /\ replay = NoReplay
  /\ result = Null

InitWith(amplitudes) == InitFrom(amplitudes, 0)

Init == InitWith({createShakeState})

Prepare(inputs) ==
  /\ pc = "idle"
  /\ \E o \in inputs :
       \E first \in SUBSET TiedGuards(o) :
         \E later \in SUBSET LaterTies(Merge(o, [ties |-> first])) :
           \E rnd \in RoundingsAt(o, shake) :
             opts' = Merge(o, [ties |-> first \cup later, rnd |-> rnd])
  /\ pc' = "call"
  /\ UNCHANGED <<shake, ampIn, ctx, runStart, runElapsed, runTicks, replay, result>>

\* the run the observer follows, after a drawFrame tick on a shake state
RunAfter(o, a) ==
  IF BurstFires(o) THEN [start |-> drawFrameShake(o, a), elapsed |-> 0, ticks |-> 0]
  ELSE IF runElapsed + o.dt > MaxElapsed \/ runTicks + 1 > MaxTicks
    THEN [start |-> a, elapsed |-> o.dt, ticks |-> 1]
  ELSE [start |-> runStart, elapsed |-> runElapsed + o.dt, ticks |-> runTicks + 1]

DrawFrame ==
  /\ pc = "call"
  /\ opts.fn = "drawFrame"
  /\ \E rx, ry \in (IF ShakeApplied(opts, shake) THEN RandomValues ELSE {R(1, 2)}) :
       ctx' = drawFrameSurface(opts, shake, rx, ry)
  /\ shake' = drawFrameShake(opts, shake)
  /\ ampIn' = shake
  /\ IF opts.shakeState /\ runTicks >= 0
     THEN /\ runStart' = RunAfter(opts, shake).start
          /\ runElapsed' = RunAfter(opts, shake).elapsed
          /\ runTicks' = RunAfter(opts, shake).ticks
     ELSE UNCHANGED <<runStart, runElapsed, runTicks>>
  /\ pc' = "ret"
  /\ UNCHANGED <<opts, replay, result>>

DrawMultiFrame ==
  /\ pc = "call"
  /\ opts.fn = "drawMultiFrame"
  /\ ctx' = drawMultiFrameSurface(opts)
  /\ ampIn' = shake
  /\ pc' = "ret"
  /\ UNCHANGED <<opts, shake, runStart, runElapsed, runTicks, replay, result>>

DrawCandleFrame ==
  /\ pc = "call"
  /\ opts.fn = "drawCandleFrame"
  /\ ctx' = drawCandleFrameSurface(opts)
  /\ ampIn' = shake
  /\ pc' = "ret"
  /\ UNCHANGED <<opts, shake, runStart, runElapsed, runTicks, replay, result>>

Discard ==
  /\ pc = "ret"
  /\ pc' = "idle"
  /\ opts' = NoOpts
  /\ ctx' = BaseSurface
  /\ ampIn' = AmpZero
  /\ replay' = NoReplay
  /\ result' = Null
  /\ UNCHANGED <<shake, runStart, runElapsed, runTicks>>

\* drawFrame under the shake grid, from either a fresh or an armed shake state
InitShake ==
  InitWith({createShakeState, AmpOf(Q(10)), AmpOf(Q(100)), AmpOf(R(214801, 100000))})
NextShake == Prepare(FrameShakeInputs) \/ DrawFrame \/ Discard
SpecShake == InitShake /\ [][NextShake]_vars

\* drawFrame under the layer switches, from an armed shake state
InitOrder == InitWith({AmpOf(Q(10))})
NextOrder == Prepare(FrameOrderInputs) \/ DrawFrame \/ Discard
SpecOrder == InitOrder /\ [][NextOrder]_vars

(* The proximity fade on its own: the expression is evaluated at distToLive,  *)
(* and at two points on either side of it, FadeStep and FadeStep/2 away.  The *)
(* expression is linear between its branch points, so the line through the    *)
(* two points on a side gives the value it approaches from that side.         *)
FadeStep == R(1, 2)

FadeDists == {Zero, Q(3), Q(5), Q(6), Q(10), Q(30), Q(80), Q(100)}
FadeWidths == {Q(10), R(50, 3), Q(20), Q(100), Q(300)}
FadeScrubs == {Zero, R(1, 100), R(1, 2), One}

FadeInputs ==
  { [fn |-> "scrubOpacity", distToLive |-> d, chartW |-> w, scrubAmount |-> a] :
      d \in FadeDists, w \in FadeWidths, a \in FadeScrubs }

FadeAt(o, offset) == ProximityFade(RAdd(o.distToLive, offset), o.chartW, o.scrubAmount)

\* the value on the line through (x - h, fh) and (x - h/2, fh2), at x
Approached(fh, fh2) == RSub(RMul(Q(2), fh2), fh)

EvalScrubOpacity ==
  /\ pc = "call"
  /\ opts.fn = "scrubOpacity"
  /\ result' = [value |-> FadeAt(opts, Zero),
                below |-> Approached(FadeAt(opts, RSub(Zero, FadeStep)),
                                     FadeAt(opts, RSub(Zero, RDiv(FadeStep, Q(2))))),
                above |-> Approached(FadeAt(opts, FadeStep),
                                     FadeAt(opts, RDiv(FadeStep, Q(2))))]
  /\ pc' = "ret"
  /\ UNCHANGED <<opts, shake, ampIn, ctx, runStart, runElapsed, runTicks, replay>>

NextFade == Prepare(FadeInputs) \/ EvalScrubOpacity \/ Discard
SpecFade == Init /\ [][NextFade]_vars

(* A second call of drawFrame with the inputs and the shake amplitude of the   *)
(* call that just returned, on a fresh surface.  Math.random() draws again,   *)
(* in every tick: the second call is handed draws of its own whether or not   *)
(* the first one read any.                                                    *)
ReplayInputs ==
  { Merge(FrameBase, x) :
      x \in [shakeState : BOOLEAN, burst : {Zero, R(1, 20), One}, swingMagnitude : {Zero},
             chartReveal : {Zero, One}] }

Replay ==
  /\ pc = "ret"
  /\ ~replay.done
  /\ opts.fn = "drawFrame"
  /\ \E rx, ry \in RandomValues :
       replay' = [done |-> TRUE,
                  ctx |-> drawFrameSurface(opts, ampIn, rx, ry),
                  shake |-> drawFrameShake(opts, ampIn)]
  /\ UNCHANGED <<pc, opts, shake, ampIn, ctx, runStart, runElapsed, runTicks, result>>

NextReplay == Prepare(ReplayInputs) \/ DrawFrame \/ Replay \/ Discard
SpecReplay == InitShake /\ [][NextReplay]_vars

---------------------------------------------------------------------------
(* The inputs of drawBars *)

\* BarPoint values: left of, at and right of the scrub x; not positive;
\* outside the plot; too short to draw
BarLeft == [value |-> Q(100), centerX |-> Q(50)]
BarAtScrub == [value |-> Q(60), centerX |-> Q(100)]
BarRight == [value |-> Q(100), centerX |-> Q(150)]
BarZero == [value |-> Zero, centerX |-> Q(150)]
BarOutside == [value |-> Q(100), centerX |-> Q(400)]
BarShort == [value |-> One, centerX |-> Q(150)]
\* on the right edge of the plot: of padLeft 5.1 + chartW 202.2, of 10 + 300
BarOnEdge == [value |-> Q(100), centerX |-> R(2073, 10)]
BarOnWholeEdge == [value |-> Q(100), centerX |-> Q(310)]
BarPoints == {BarLeft, BarAtScrub, BarRight, BarZero, BarOutside, BarShort}

\* the lists of at most n bars
RECURSIVE BarLists(_)
BarLists(n) ==
  IF n = 0 THEN {<<>>}
  ELSE BarLists(n - 1) \cup
       { Append(l, b) : l \in {k \in BarLists(n - 1) : Len(k) = n - 1}, b \in BarPoints }

BarsBase ==
  [fn |-> "drawBars", bars |-> <<BarLeft, BarAtScrub, BarRight>>, barWidthSecs |-> Q(10),
   windowSecs |-> Q(300), chartW |-> Q(300), padLeft |-> Q(10), w |-> Q(600),
   maxValue |-> Q(100), maxHeight |-> Q(40), scrubX |-> Q(100), scrubAmount |-> R(1, 2),
   revealProgress |-> One, showLabels |-> FALSE, entryAlpha |-> One]

BarsInputs ==
  { Merge(BarsBase, x) :
      x \in [bars : BarLists(MaxBars), scrubX : {Null, Q(100)},
             scrubAmount : {R(1, 20), R(1, 2), One}, entryAlpha : {R(1, 2), One}] }
  \cup
  { Merge(BarsBase, x) :
      x \in [revealProgress : {Zero, R(1, 100), R(1, 2), R(5, 8), One}, showLabels : BOOLEAN,
             maxValue : {Zero, Q(100)}, barWidthSecs : {Q(2), Q(10)},
             scrubAmount : {Zero, R(1, 2)}, entryAlpha : {R(1, 2), One},
             w : {Q(400), Q(600)}] }
  \cup
  { Merge(BarsBase, x) :
      x \in [bars : {<<BarOnEdge>>, <<BarOnEdge, BarRight>>, <<BarOnWholeEdge>>},
             padLeft : {Q(5), R(51, 10), Q(10)}, chartW : {R(1011, 5), Q(300)},
             showLabels : BOOLEAN, entryAlpha : {R(1, 2), One}] }

\* one call of drawBars on a surface whose globalAlpha the caller has set
DrawBars ==
  /\ pc = "call"
  /\ opts.fn = "drawBars"
  /\ ctx' = drawBarsSurface(EntrySurface(opts), opts)
  /\ ampIn' = shake
  /\ pc' = "ret"
  /\ UNCHANGED <<opts, shake, runStart, runElapsed, runTicks, replay, result>>

NextBars == Prepare(BarsInputs) \/ DrawBars \/ Discard
SpecBars == Init /\ [][NextBars]_vars

(* drawFrame and drawMultiFrame over lines that return points or none, with   *)
(* the layer switches, the shake state and the burst.                         *)
EmptyPtsInputs ==
  { Merge(Merge(FrameBase, l), x) :
      l \in LayerSets,
      x \in [pts : {Null, Q(200)}, shakeState : BOOLEAN, burst : {Zero, One},
             chartReveal : {R(1, 2), One}, hoverX : {Null, Q(100)}] }
  \cup
  { Merge(MultiBase, x) :
      x \in [series : {<<>>, <<SeriesNoPts>>, <<SeriesNoPts, SeriesNoPts>>, <<SeriesHidden>>,
                       <<SeriesShown, SeriesNoPts>>, <<SeriesNoPts, SeriesShown>>},
             chartReveal : {Zero, R(1, 2), One}, showPulse : BOOLEAN] }

NextEmpty == Prepare(EmptyPtsInputs) \/ DrawFrame \/ DrawMultiFrame \/ Discard
SpecEmpty == InitOrder /\ [][NextEmpty]_vars

(* Ticks of drawFrame on a shake state in which no burst fires, each with dt  *)
(* of at least 16 ms, from amplitudes between 0 and 100 px.                   *)
DecayInputs ==
  { o \in { Merge(FrameBase, x) :
              x \in [shakeState : {TRUE}, dt : {16, 125, 1000}, burst : {Zero, One},
                     pts : {Null, Q(200)}] } :
      ~BurstFires(o) }

InitDecay ==
  InitFrom({createShakeState, AmpOf(R(3, 20)), AmpOf(Q(10)), AmpOf(Q(100))}, -1)
NextDecay == Prepare(DecayInputs) \/ DrawFrame \/ Discard
SpecDecay == InitDecay /\ [][NextDecay]_vars

\* the three composers under the layer and hover grids
Next == Prepare(ComposerInputs) \/ DrawFrame \/ DrawMultiFrame \/ DrawCandleFrame \/ Discard
Spec == Init /\ [][Next]_vars

---------------------------------------------------------------------------
(* Reading the call log *)

Log == ctx.log
Returned(f) == pc = "ret" /\ opts.fn = f
Ops(log) == {log[i].op : i \in DOMAIN log}
Issued(op) == op \in Ops(Log)
EntriesOf(op) == {i \in DOMAIN Log : Log[i].op = op}

\* the frame applied a shake offset: ctx.translate was called
TranslateIssued == Issued("translate")

(* The stage of drawFrame a log entry belongs to, 0 for the save / restore /  *)
(* clip calls that wrap a layer.  The restore of the shake translate is the   *)
(* restore made at depth 1 of a frame that translated.                        *)
StageOf(e, o, translated) ==
  CASE e.op = "translate" -> 1
    [] e.op = "drawReferenceLine" -> 2
    [] e.op = "drawGrid" -> 3
    [] e.op = "drawOrderbook" -> 4
    [] e.op = "drawBars" /\ o.barMode = "overlay" -> 5
    [] e.op = "drawLine" -> 6
    [] e.op = "drawTimeAxis" -> 7
    [] e.op = "drawDot" -> 8
    [] e.op = "drawArrows" -> 9
    [] e.op = "spawnOnSwing" -> 10
    [] e.op = "drawParticles" -> 11
    [] e.op = "drawBars" /\ o.barMode = "default" -> 12
    [] e.op = "fillRect" -> 13
    [] e.op = "drawCrosshair" -> 14
    [] e.op = "restore" /\ e.depth = 1 /\ translated -> 15
    [] OTHER -> 0

StagesOf(log, o) == {StageOf(log[i], o, "translate" \in Ops(log)) : i \in DOMAIN log} \ {0}

---------------------------------------------------------------------------
(* C1: in every drawFrame call the stages that are issued occur in the order  *)
(* shake translate, reference line, grid, order book, overlay bars, price     *)
(* line, time axis, live dot, arrows, particle spawn, particle draw, default  *)
(* bars, left-edge fade, crosshair, shake restore: of two stage calls in the  *)
(* log, the earlier one belongs to the earlier stage.                         *)
C1_StageOrder ==
  Returned("drawFrame") =>
    \A i, j \in DOMAIN Log :
      LET si == StageOf(Log[i], opts, TranslateIssued)
          sj == StageOf(Log[j], opts, TranslateIssued)
      IN (i < j /\ si # 0 /\ sj # 0) => si < sj

\* a frame that issues every stage, with the bars in default mode
C1_Witness ==
  /\ Returned("drawFrame")
  /\ StagesOf(Log, opts) = (1..15) \ {5}

---------------------------------------------------------------------------
(* C2: shake decay is time-proportional.  Over a burst-free run of one or     *)
(* more drawFrame ticks on the shake state, the amplitude left by the run is  *)
(* the amplitude a single tick of the run's total dt leaves from the run's    *)
(* starting amplitude; so two runs from the same amplitude with the same      *)
(* total dt leave the same amplitude, however the time is divided.            *)
C2_TimeProportional ==
  runTicks >= 1 => \E rnd \in {-1, 0, 1} : shake = ShakeDecay(runStart, runElapsed, rnd)

(* C3: a drawFrame call that applied a shake offset (saved and translated)    *)
(* returns with the surface's save depth and transform as at entry.           *)
C3_ShakeRestored ==
  (Returned("drawFrame") /\ ShakeApplied(opts, ampIn)) =>
    (Len(ctx.stack) = 0 /\ ctx.xf = NoShift)

\* the tick in which the amplitude may be re-armed
BurstTick(o) ==
  o.particleState /\ RGt(o.chartReveal, R(9, 10)) /\ o.pts # Null /\ RGt(o.burst, Zero)

(* C4: a drawFrame call given a shakeState, in which no burst fires, leaves   *)
(* the amplitude at entry times 0.002^(dt/1000), or exactly 0 when that is    *)
(* below 0.2, whether or not the tick applied an offset; amplitude 10 with    *)
(* dt = 1000 ends at exactly 0; and the tick applies the offset iff the       *)
(* amplitude at entry exceeds 0.2.                                            *)
(* The product is the amplitude stored at entry, decayed for dt more: where it *)
(* is below 0.2 as a real number the amplitude left is 0, where above, the     *)
(* product; where the two are equal, or closer than the model resolves, the    *)
(* rounded product decides, and either is left.  A tick of dt = 0 leaves the   *)
(* stored amplitude, or 0 when that was below 0.2.                             *)
C4_DecayEveryTick ==
  (Returned("drawFrame") /\ opts.shakeState) =>
    /\ ~BurstTick(opts) =>
         LET cmp == AmpRealCmpMin(Amp(ampIn.m, ampIn.e + opts.dt))
             product == shake.m = ampIn.m /\ shake.e = ampIn.e + opts.dt
         IN /\ cmp = -1 => shake = AmpZero
            /\ cmp = 1 => product
            /\ cmp = 0 => (shake = AmpZero \/ product)
            /\ opts.dt = 0 => shake = (IF AmpBelowMin(ampIn) THEN AmpZero ELSE ampIn)
    /\ (~BurstTick(opts) /\ ampIn = AmpOf(Q(10)) /\ opts.dt = 1000) => shake = AmpZero
    /\ TranslateIssued <=> AmpAboveMin(ampIn)

\* scenario D: amplitude 10, one tick of dt = 1000
C4_Witness ==
  /\ Returned("drawFrame") /\ opts.shakeState /\ ~BurstFires(opts)
  /\ ampIn = AmpOf(Q(10)) /\ opts.dt = 1000
  /\ TranslateIssued
  /\ shake = AmpZero

(* C5: in a tick whose particle spawn returns a burst intensity > 0, with a   *)
(* shakeState, the amplitude at return is exactly (3 + 4 swingMagnitude) *    *)
(* burstIntensity, undecayed, and the offset of that tick is the one of the   *)
(* amplitude at entry; the next tick given the shake state applies an offset  *)
(* iff the amplitude it is handed exceeds 0.2.                                *)
C5_BurstTick ==
  (Returned("drawFrame") /\ BurstFires(opts)) =>
    /\ shake.m = RMul(RAdd(Q(3), RMul(Q(4), opts.swingMagnitude)), opts.burst)
    /\ shake.e = 0
    /\ TranslateIssued <=> AmpAboveMin(ampIn)

C5_NextTick ==
  (pc = "call" /\ opts.fn = "drawFrame" /\ opts.shakeState /\ pc' = "ret") =>
    (("translate" \in Ops(ctx'.log)) <=> AmpAboveMin(shake))

C5_Rearm == [](C5_BurstTick) /\ [][C5_NextTick]_vars

\* a burst tick that entered with a decaying amplitude and left the burst value
C5_Witness ==
  /\ Returned("drawFrame") /\ BurstFires(opts)
  /\ AmpAboveMin(ampIn) /\ ampIn.e > 0 /\ opts.dt > 0
  /\ TranslateIssued
  /\ shake = AmpOf(Q(7))

---------------------------------------------------------------------------
(* C6 (as stated): the proximity fade is continuous at both branch points for *)
(* every chart width and every scrubAmount: at distToLive = 5 the value and   *)
(* the values approached from below and above are 0; at distToLive =          *)
(* fadeStart they are scrubAmount.                                            *)
FadeContinuousAt(o, r) ==
  /\ o.distToLive = Q(CROSSHAIR_FADE_MIN_PX)
       => (r.below = Zero /\ r.value = Zero /\ r.above = Zero)
  /\ o.distToLive = fadeStartOf(o.chartW)
       => (r.below = o.scrubAmount /\ r.value = o.scrubAmount /\ r.above = o.scrubAmount)

C6_FadeContinuousEveryWidth ==
  Returned("scrubOpacity") => FadeContinuousAt(opts, result)

(* C6 (amended): the proximity fade is continuous at both branch points for   *)
(* every chart width with fadeStart = min(80, 0.3 * chartW) > 5 and every     *)
(* scrubAmount in [0, 1].                                                     *)
C6_FadeContinuous ==
  (Returned("scrubOpacity") /\ RGt(fadeStartOf(opts.chartW), Q(CROSSHAIR_FADE_MIN_PX)))
    => FadeContinuousAt(opts, result)

\* the upper branch point of a 100 px chart, reached on a rising ramp
C6_Witness ==
  /\ Returned("scrubOpacity")
  /\ opts.chartW = Q(100) /\ opts.distToLive = Q(30) /\ opts.scrubAmount = R(1, 2)
  /\ result.value = R(1, 2) /\ result.below = R(1, 2)
  /\ RLt(FadeAt(opts, RSub(Zero, FadeStep)), R(1, 2))

---------------------------------------------------------------------------
ReturnedComposer == pc = "ret" /\ opts.fn \in {"drawFrame", "drawMultiFrame", "drawCandleFrame"}

\* the calls that draw a candle, a line, a grid or a dot
LineOps == {"drawLine"}
CandleGridDotOps ==
  {"drawCandlesticks", "drawGrid", "drawDot", "drawMultiDot", "drawSimpleDot"}

(* C7 (as stated): with reveal = 0 a composer issues no candle, line, grid or *)
(* dot drawing call.                                                          *)
C7_RevealZeroNothing ==
  (ReturnedComposer /\ opts.chartReveal = Zero)
    => Ops(Log) \cap (LineOps \cup CandleGridDotOps) = {}

(* C7 (amended): with reveal = 0 a composer issues no candle, grid or dot     *)
(* drawing call, and no other reveal-faded layer; the line is still drawn, as *)
(* the loading placeholder: always by drawFrame, for the first series only by *)
(* drawMultiFrame, and by drawCandleFrame whenever lineVisible has two points.*)
(* Besides it and the left-edge fade only the hover crosshair and the empty   *)
(* overlay can be issued.                                                     *)
C7_RevealZero ==
  (ReturnedComposer /\ opts.chartReveal = Zero)
    => /\ Ops(Log) \subseteq {"save", "restore", "translate", "drawLine", "fillRect",
                               "drawCrosshair", "drawMultiCrosshair", "drawEmpty"}
       /\ Issued("fillRect")
       /\ opts.fn = "drawFrame" => Cardinality(EntriesOf("drawLine")) = 1
       /\ opts.fn = "drawMultiFrame" => \A i \in EntriesOf("drawLine") : Log[i].args[5] = Q(1)
       /\ opts.fn = "drawCandleFrame" => (Issued("drawLine") <=> opts.lineVisible >= 2)

\* drawFrame at reveal 0 with every layer switched on and a point list returned
C7_Witness ==
  /\ Returned("drawFrame") /\ opts.chartReveal = Zero
  /\ opts.showGrid /\ opts.referenceLine /\ opts.bars /\ opts.showMomentum
  /\ opts.particleState /\ HasPts(opts)
  /\ Issued("drawLine") /\ Issued("fillRect") /\ ~Issued("drawGrid") /\ ~Issued("drawDot")

---------------------------------------------------------------------------
RECURSIVE SansShake(_)
SansShake(log) ==
  IF log = <<>> THEN <<>>
  ELSE LET e == Head(log)
       IN IF e.op = "restore" /\ e.depth = 1 THEN SansShake(Tail(log))
          ELSE IF e.op = "translate" THEN <<[e EXCEPT !.args = <<>>]>> \o SansShake(Tail(log))
          ELSE <<e>> \o SansShake(Tail(log))

---------------------------------------------------------------------------
\* the calls that draw a layer under the globalAlpha the composer has set
LayerOps ==
  {"drawReferenceLine", "drawGrid", "drawOrderbook", "drawBars", "drawLine", "drawTimeAxis",
   "drawDot", "drawArrows", "drawMultiDot", "drawSimpleDot", "fillText", "drawClosePrice",
   "stroke", "drawCandlesticks"}

(* C9: in every composer a layer's drawing call is made only under an alpha   *)
(* greater than 0.01: no series line, dot, candle layer of either width or    *)
(* close-price line variant is drawn with an effective alpha <= 0.01.         *)
C9_NoFaintLayer ==
  ReturnedComposer
    => \A i \in DOMAIN Log : Log[i].op \in LayerOps => RGt(Log[i].alpha, R(1, 100))

---------------------------------------------------------------------------
\* the crosshair calls of the three composers
CrosshairOps ==
  {"drawCrosshair", "drawMultiCrosshair", "drawLineModeCrosshair", "drawCandleCrosshair"}

\* hover x, hover value and hover time are all given; drawMultiFrame takes its
\* hover values as the hoverEntries list
HoverComplete(o) ==
  /\ o.hoverX # Null
  /\ o.hoverTime # Null
  /\ IF o.fn = "drawMultiFrame" THEN o.hoverEntries > 0 ELSE o.hoverValue # Null

(* C10: in each of the three composers the crosshair is drawn only when hover *)
(* x, hover value and hover time are all non-null in that call.               *)
C10_CrosshairNeedsHover ==
  (ReturnedComposer /\ Ops(Log) \cap CrosshairOps # {}) => HoverComplete(opts)

---------------------------------------------------------------------------
\* the alpha a series is to be drawn under: its own alpha, times min(1, 2 * reveal)
\* for a series after the first while reveal < 1
SeriesDrawAlpha(o, si) ==
  LET own == IF o.series[si].alpha = Null THEN One ELSE o.series[si].alpha
      double == RMul(Q(2), o.chartReveal)
  IN IF si > 1 /\ RLt(o.chartReveal, One)
     THEN RMul(own, IF RLt(double, One) THEN double ELSE One)
     ELSE own

\* the log entries of series si: its line, its endpoint dot and label
SeriesLineEntries(si) == {i \in EntriesOf("drawLine") : Log[i].args[5] = Q(si)}
SeriesDotEntries(si) ==
  {i \in DOMAIN Log : Log[i].op \in {"drawMultiDot", "drawSimpleDot", "fillText"}
                      /\ Log[i].args[2] = Q(si)}

\* the globalAlpha a layer of computed alpha a is drawn under: a is set when it
\* is below 1, and nothing is set for an alpha of 1, which leaves the alpha
\* the surface was handed over with (1 on the host's surface)
UnderAlpha(o, a) == IF RLt(a, One) THEN a ELSE o.entryAlpha

SeriesNotDrawn(si) == SeriesLineEntries(si) = {} /\ SeriesDotEntries(si) = {}
SeriesDrawnFaded(si) ==
  /\ Cardinality(SeriesLineEntries(si)) = 1
  /\ \A i \in SeriesLineEntries(si) :
       Log[i].alpha = UnderAlpha(opts, SeriesDrawAlpha(opts, si))

(* C11: in drawMultiFrame a series after the first is drawn under             *)
(* seriesAlpha * min(1, 2 * reveal) while reveal < 1 and under seriesAlpha at *)
(* reveal = 1, the first series always under its own seriesAlpha; a series    *)
(* whose combined alpha is below 0.01 gets no line, no endpoint dot and no    *)
(* label.  Where the product of a faded series is 0.01 as a real number, the  *)
(* rounding of the product decides which of the two it is.                    *)
C11_SecondaryFade ==
  Returned("drawMultiFrame")
    => \A si \in DOMAIN opts.series :
         LET a == SeriesDrawAlpha(opts, si)
         IN /\ RLt(a, R(1, 100)) => SeriesNotDrawn(si)
            /\ RGt(a, R(1, 100)) => SeriesDrawnFaded(si)
            /\ a = R(1, 100) =>
                 IF si > 1 /\ RLt(opts.chartReveal, One)
                 THEN SeriesNotDrawn(si) \/ SeriesDrawnFaded(si)
                 ELSE SeriesDrawnFaded(si)

\* two shown series at reveal 0.1: the first under 1, the second under 0.2
C11_Witness ==
  /\ Returned("drawMultiFrame") /\ opts.chartReveal = R(1, 10)
  /\ opts.series = <<SeriesShown, SeriesShown>>
  /\ \E i \in SeriesLineEntries(1) : Log[i].alpha = One
  /\ \E i \in SeriesLineEntries(2) : Log[i].alpha = R(1, 5)

---------------------------------------------------------------------------
\* the last-point x of the series visible in this tick: drawn (combined alpha
\* not read as below 0.01) and with points returned
VisibleLastX(o) ==
  {o.series[si].pts : si \in {k \in DOMAIN o.series :
                               /\ ~SeriesSkipped(o, k)
                               /\ o.series[k].pts # Null}}

RightmostOf(xs) == CHOOSE x \in xs : \A y \in xs : RLe(y, x)

(* C12: in drawMultiFrame the x used as the crosshair proximity anchor, and   *)
(* passed on as the live-dot x, is the maximum last-point x over the series   *)
(* visible in this tick, and the opacity is the proximity fade from it.       *)
C12_RightmostAnchor ==
  Returned("drawMultiFrame")
    => \A i \in EntriesOf("drawMultiCrosshair") :
         /\ Log[i].args[5] = RightmostOf(VisibleLastX(opts))
         /\ Log[i].args[4] = ProximityFade(RSub(RightmostOf(VisibleLastX(opts)), opts.hoverX),
                                           opts.chartW, opts.scrubAmount)

---------------------------------------------------------------------------
\* the crosshair block of drawCandleFrame is entered
CandleCrosshairDue(o) ==
  RGt(o.chartReveal, R(7, 10)) /\ o.hoveredCandle /\ o.hoverX # Null
  /\ RGt(o.scrubAmount, R(1, 100))

(* C13: drawCandleFrame with lineModeProg = 1, at every reveal: lp = 1,       *)
(* colorBlend = 1 and candleAlpha = 0, so the morph line is drawn under alpha *)
(* 1 with colour blend 1, no candlestick call and neither close-price line    *)
(* variant is issued, and a crosshair that is due is the line-mode variant.   *)
C13_FullLineMode ==
  (Returned("drawCandleFrame") /\ opts.lineModeProg = One)
    => /\ lpOf(opts) = One /\ colorBlendOf(opts) = One /\ candleAlphaOf(opts) = Zero
       /\ \A i \in EntriesOf("drawLine") : Log[i].alpha = One /\ Log[i].args[5] = One
       /\ Ops(Log) \cap {"drawCandlesticks", "drawClosePrice", "stroke", "drawCandleCrosshair"} = {}
       /\ CandleCrosshairDue(opts) <=> Issued("drawLineModeCrosshair")

\* full line mode, fully revealed, hovering: line and line-mode crosshair drawn
C13_Witness ==
  /\ Returned("drawCandleFrame") /\ opts.lineModeProg = One /\ opts.chartReveal = One
  /\ opts.closePriceCandle /\ opts.liveCandle
  /\ Issued("drawLine") /\ Issued("drawLineModeCrosshair") /\ ~Issued("drawCandlesticks")

---------------------------------------------------------------------------
\* the candlestick calls of the old width (args[1] = 0) and of the display width
OldWidthEntries == {i \in EntriesOf("drawCandlesticks") : Log[i].args[1] = Zero}
NewWidthEntries == {i \in EntriesOf("drawCandlesticks") : Log[i].args[1] = One}

\* candleAlpha = reveal * (1 - max(lineModeProg, revealLine))
ClaimedCandleAlpha(o) ==
  LET u == RSub(One, o.chartReveal)
      rl == IF RGe(o.lineModeProg, R(99, 100)) THEN u ELSE RMul(u, RMul(u, u))
      lp == IF RGt(rl, o.lineModeProg) THEN rl ELSE o.lineModeProg
  IN RMul(o.chartReveal, RSub(One, lp))

\* old-width candles under (1 - morphT) * candleAlpha, then new-width candles
\* under morphT * candleAlpha
CrossDissolved(o) ==
  LET ca == ClaimedCandleAlpha(o)
  IN /\ Cardinality(OldWidthEntries) = 1 /\ Cardinality(NewWidthEntries) = 1
     /\ \A i \in OldWidthEntries, j \in NewWidthEntries :
          /\ i < j
          /\ Log[i].alpha = RMul(RSub(One, o.morphT), ca)
          /\ Log[j].alpha = RMul(o.morphT, ca)
          /\ RLe(Zero, Log[i].alpha) /\ RLe(Log[i].alpha, ca)
          /\ RLe(Zero, Log[j].alpha) /\ RLe(Log[j].alpha, ca)
          /\ RAdd(Log[i].alpha, Log[j].alpha) = ca

(* C14 (as stated): in drawCandleFrame, whenever morphT is not -1 and candles *)
(* are drawn, old-width candles are drawn at (1 - morphT) * candleAlpha and   *)
(* new-width candles at morphT * candleAlpha in the same call, for every      *)
(* morphT in [-1, 1] and also when the old-candle list is empty.              *)
C14_MorphWhenNotInactive ==
  (Returned("drawCandleFrame") /\ opts.morphT # Q(-1) /\ Issued("drawCandlesticks"))
    => CrossDissolved(opts)

(* C14 (amended): in drawCandleFrame, whenever candles are drawn with         *)
(* morphT >= 0 and a non-empty old-candle list, old-width candles are drawn   *)
(* at (1 - morphT) * candleAlpha and new-width candles at morphT *            *)
(* candleAlpha in the same call, both in [0, candleAlpha] and summing to      *)
(* candleAlpha; with morphT < 0 or an empty old-candle list the new-width     *)
(* candles alone are drawn, at candleAlpha (a candleAlpha of 1 is not set: it *)
(* is the alpha the surface was handed over with).                            *)
C14_WidthMorph ==
  (Returned("drawCandleFrame") /\ Issued("drawCandlesticks"))
    => IF RGe(opts.morphT, Zero) /\ opts.oldCandles > 0
       THEN CrossDissolved(opts)
       ELSE /\ OldWidthEntries = {} /\ Cardinality(NewWidthEntries) = 1
            /\ \A j \in NewWidthEntries :
                 Log[j].alpha = UnderAlpha(opts, ClaimedCandleAlpha(opts))

\* a quarter of the way through a reveal... the morph at 1/2 of a partly shown chart
C14_Witness ==
  /\ Returned("drawCandleFrame") /\ opts.morphT = R(1, 2) /\ opts.oldCandles > 0
  /\ opts.chartReveal = R(4, 5) /\ opts.lineModeProg = R(1, 2)
  /\ \E i \in OldWidthEntries, j \in NewWidthEntries :
       Log[i].alpha = R(1, 5) /\ Log[j].alpha = R(1, 5)

---------------------------------------------------------------------------
\* lp = max(lineModeProg, revealLine), from the inputs alone
ClaimedLp(o) ==
  LET u == RSub(One, o.chartReveal)
      rl == IF RGe(o.lineModeProg, R(99, 100)) THEN u ELSE RMul(u, RMul(u, u))
  IN IF RGt(rl, o.lineModeProg) THEN rl ELSE o.lineModeProg

(* C16: in drawCandleFrame, colorBlend lies in [0, 1] for every lineModeProg  *)
(* and reveal in [0, 1], including the band where lp is near zero; whenever   *)
(* the morph line is drawn (lp > 0.01) the colorBlend it is drawn with equals *)
(* lineModeProg / lp.                                                         *)
C16_ColorBlend ==
  Returned("drawCandleFrame")
    => /\ RLe(Zero, colorBlendOf(opts)) /\ RLe(colorBlendOf(opts), One)
       /\ \A i \in EntriesOf("drawLine") :
            /\ RGt(ClaimedLp(opts), R(1, 100))
            /\ RLe(Zero, Log[i].args[5]) /\ RLe(Log[i].args[5], One)
            /\ RMul(Log[i].args[5], ClaimedLp(opts)) = opts.lineModeProg

\* reveal-driven lp = 1/8 over lineModeProg = 1/100: a blend of 2/25
C16_Witness ==
  /\ Returned("drawCandleFrame")
  /\ opts.lineModeProg = R(1, 100) /\ opts.chartReveal = R(1, 2)
  /\ \E i \in EntriesOf("drawLine") : Log[i].args[5] = R(2, 25)

\* the near-zero band: lp at the 0.001 gate, blend forced to 1, no line
C16_BandWitness ==
  /\ Returned("drawCandleFrame")
  /\ opts.lineModeProg = R(1, 2000) /\ opts.chartReveal = R(9, 10)
  /\ colorBlendOf(opts) = One /\ ~Issued("drawLine")

---------------------------------------------------------------------------
\* no drawn series returned points: each line is skipped or returns none
NoSeriesPoints(o) ==
  \A si \in DOMAIN o.series :
    o.series[si].pts = Null \/ SeriesSkipped(o, si)

(* C15: when the price-line draw returns no points, drawFrame issues no       *)
(* live-dot, arrow, particle spawn, particle draw or crosshair call and       *)
(* leaves the shake amplitude un-re-armed (only decayed); likewise            *)
(* drawMultiFrame issues no endpoint dot, label or crosshair call when no     *)
(* series returned points.                                                    *)
C15_EmptyPts ==
  /\ (Returned("drawFrame") /\ opts.pts = Null) =>
       /\ Ops(Log) \cap {"drawDot", "drawArrows", "spawnOnSwing", "drawParticles",
                         "drawCrosshair"} = {}
       /\ Issued("drawLine")
       /\ opts.shakeState =>
            LET decayed == AmpTimesDecayRate(ampIn, opts.dt, opts.rnd)
            IN shake = IF AmpBelowMin(decayed) THEN AmpZero ELSE decayed
       /\ ~opts.shakeState => shake = ampIn
  /\ (Returned("drawMultiFrame") /\ NoSeriesPoints(opts)) =>
       Ops(Log) \cap {"drawMultiDot", "drawSimpleDot", "fillText", "drawMultiCrosshair"} = {}

\* a fully revealed hovered frame with every layer on, a shake state and a
\* positive burst on offer, whose line returned nothing
C15_Witness ==
  /\ Returned("drawFrame") /\ opts.pts = Null
  /\ opts.shakeState /\ opts.particleState /\ opts.showMomentum
  /\ opts.burst = One /\ opts.chartReveal = One /\ opts.hoverX # Null
  /\ ampIn = AmpOf(Q(10)) /\ shake = AmpZero
  /\ Issued("drawLine") /\ Issued("drawTimeAxis")

\* a multi frame whose only drawn series returned nothing
C15_MultiWitness ==
  /\ Returned("drawMultiFrame") /\ opts.series = <<SeriesNoPts>> /\ opts.chartReveal = One
  /\ Issued("drawLine") /\ ~Issued("drawSimpleDot")

---------------------------------------------------------------------------
\* the fills of drawBars, and the bar each one draws
BarFillEntries == {i \in DOMAIN Log : Log[i].op \in {"fill", "fillRect"}}
BarFilledBy(i) == opts.bars[Log[i].args[2].n]

\* baseAlpha * (1 - 0.6 * scrubAmount)
DimmedAlpha(o) == RMul(o.entryAlpha, RSub(One, RMul(R(3, 5), o.scrubAmount)))

(* C17: in drawBars, when a scrub x is given and scrubAmount > 0.05, every    *)
(* drawn bar whose centre x is strictly right of the scrub x is filled at     *)
(* baseAlpha * (1 - 0.6 * scrubAmount) and every drawn bar whose centre is at *)
(* or left of it at exactly baseAlpha, whatever the order of the bars and     *)
(* whichever bars before it were skipped or dimmed; with scrub x null, or     *)
(* scrubAmount <= 0.05, every bar is filled at baseAlpha.                     *)
C17_ScrubDimming ==
  Returned("drawBars") =>
    \A i \in BarFillEntries :
      IF opts.scrubX # Null /\ RGt(opts.scrubAmount, R(1, 20))
         /\ RGt(BarFilledBy(i).centerX, opts.scrubX)
      THEN Log[i].alpha = DimmedAlpha(opts)
      ELSE Log[i].alpha = opts.entryAlpha

\* a dimmed bar, a skipped bar, then a bar at the scrub x, under base alpha 1/2
C17_Witness ==
  /\ Returned("drawBars")
  /\ opts.bars = <<BarRight, BarShort, BarAtScrub>>
  /\ opts.scrubX = Q(100) /\ opts.scrubAmount = R(1, 2) /\ opts.entryAlpha = R(1, 2)
  /\ Cardinality(BarFillEntries) = 2
  /\ \E i, j \in BarFillEntries :
       /\ i < j
       /\ Log[i].args[2] = Q(1) /\ Log[i].alpha = R(7, 20)
       /\ Log[j].args[2] = Q(3) /\ Log[j].alpha = R(1, 2)

(* C20: drawBars leaves the surface's globalAlpha equal to its value at entry *)
(* on every path (empty bar list or non-positive maxValue, all bars skipped,  *)
(* bars dimmed by scrub, labels drawn or not), and its label pass's save is   *)
(* always matched by a restore.                                               *)
C20_BarsAlphaRestored ==
  Returned("drawBars") =>
    /\ ctx.alpha = opts.entryAlpha
    /\ ctx.stack = <<>>
    /\ Cardinality(EntriesOf("save")) = Cardinality(EntriesOf("restore"))
    /\ \A i \in EntriesOf("restore") : \E j \in EntriesOf("save") : j < i

\* the last bar dimmed, labels drawn under their own alpha, base alpha 1/2
C20_Witness ==
  /\ Returned("drawBars")
  /\ opts.entryAlpha = R(1, 2) /\ opts.showLabels /\ opts.revealProgress = R(5, 8)
  /\ opts.scrubX # Null /\ opts.scrubAmount = R(1, 2)
  /\ Issued("save") /\ Issued("restore")
  /\ \E i \in EntriesOf("fillText") : Log[i].alpha = R(1, 4)
  /\ \E i \in BarFillEntries : Log[i].alpha = R(7, 20)
  /\ ctx.alpha = R(1, 2)

---------------------------------------------------------------------------
(* C18: across any drawFrame call with dt >= 0 in which no burst fires (no    *)
(* particleState, reveal <= 0.9, no line points, or a burst intensity of 0),  *)
(* shakeState.amplitude at return is >= 0 and <= its value at entry; the      *)
(* amplitude can increase across a tick only in a tick where reveal > 0.9, a  *)
(* particleState is supplied, the line returned points and the spawn returned *)
(* a positive burst.                                                          *)
C18_AmplitudeMonotone ==
  (Returned("drawFrame") /\ opts.shakeState /\ opts.dt >= 0) =>
    /\ RGe(shake.m, Zero)
    /\ ~BurstTick(opts) => AmpLe(shake, ampIn)
    /\ ~AmpLe(shake, ampIn) => BurstTick(opts)

\* a burst on offer but no line points: 10 px decays over 125 ms and is kept
C18_Witness ==
  /\ Returned("drawFrame") /\ opts.shakeState /\ opts.particleState
  /\ opts.burst = One /\ opts.pts = Null /\ opts.dt = 125
  /\ ampIn = AmpOf(Q(10)) /\ shake = Amp(Q(10), 125)

\* the tick that re-arms: from 0 to 7 px
C18_RearmWitness ==
  /\ Returned("drawFrame") /\ BurstTick(opts) /\ opts.shakeState
  /\ ampIn = AmpZero /\ shake = AmpOf(Q(7))

---------------------------------------------------------------------------
\* the decayed time after which an amplitude m is below 0.2: whole seconds
RECURSIVE RestWithin(_)
RestWithin(m) ==
  IF RLe(m, SHAKE_MIN_AMPLITUDE) THEN 0
  ELSE MsPerSec + RestWithin(RDiv(m, Q(DecayBase)))

(* C19: from any amplitude >= 0, if every later drawFrame tick has dt of at   *)
(* least some fixed positive amount and no burst fires, the amplitude becomes *)
(* exactly 0 after finitely many ticks, stays 0 on every later tick, and from *)
(* then on no tick applies a shake translate.  Every such tick leaves either  *)
(* 0, or the amplitude it was handed decayed for dt more, and an amplitude    *)
(* m px that is not 0 has decayed for at most RestWithin(m) ms: ticks of      *)
(* dt >= d leave 0 after at most RestWithin(m) / d + 1 of them.  A tick       *)
(* handed 0 leaves 0 and applies no translate.                                *)
C19_ShakeComesToRest ==
  (Returned("drawFrame") /\ opts.shakeState /\ ~BurstTick(opts) /\ opts.dt > 0) =>
    /\ \/ shake = AmpZero
       \/ /\ shake.m = ampIn.m
          /\ shake.e = ampIn.e + opts.dt
          /\ shake.e <= RestWithin(shake.m)
    /\ ampIn = AmpZero => (shake = AmpZero /\ ~TranslateIssued)

\* 10 px, still applied after 625 ms, brought to rest by the next tick of 125 ms
C19_Witness ==
  /\ Returned("drawFrame") /\ opts.dt = 125
  /\ ampIn = Amp(Q(10), 625) /\ TranslateIssued
  /\ shake = AmpZero

====
